---- MODULE Spec2Model ----
(***************************************************************************)
(* Model of the content generators of carterbs/lifting:                    *)
(*   scripts/generate-tts.py            (stretch manifest builder)         *)
(*   scripts/generate-tts-meditation.py (meditation manifest builder)      *)
(*                                                                         *)
(* A Python str is modelled as a sequence of one-character strings, so     *)
(* that lower(), re.sub, re.search, split and strip are computed           *)
(* character by character, as the interpreter computes them.  A character  *)
(* outside ASCII is written by its code point: "U+2019" is the one         *)
(* character RIGHT SINGLE QUOTATION MARK.                                  *)
(***************************************************************************)
EXTENDS Integers, Sequences, FiniteSets, TLC

VARIABLES
    \* ---- slugify harness
    name,        \* the display name handed to slugify
    slug,        \* slugify(name)
    reslug,      \* slugify(slug)
    slugPc,      \* "input" | "called" | "recalled" | "idle"
    \* ---- is_bilateral harness
    description, \* the description handed to is_bilateral
    bilateral,   \* is_bilateral(description)
    bilPc,       \* "input" | "called" | "idle"
    \* ---- find_image harness
    region,      \* the region handed to find_image
    imgName,     \* the display name handed to find_image
    images,      \* the file names present in IMAGES_SOURCE_DIR
    found,       \* find_image(region, imgName)
    imgPc,       \* "input" | "called" | "idle"
    \* ---- parse_stretch_file harness (with region and images)
    blocksIn,    \* the blocks the definition file was written from
    content,     \* the text of the definition file
    parsed,      \* parse_stretch_file(file)
    parsePc,     \* "input" | "called" | "idle"
    \* ---- a run of main and its rerun (with images)
    script,      \* "stretch" | "meditation": whose main runs; "idle"
    defs,        \* the *.md files of the definitions directory
    deps,        \* soundfile, numpy and kokoro can be imported
    outFs,       \* OUTPUT_DIR: path |-> content of the files that exist
    startFs,     \* OUTPUT_DIR when the current run started
    run,         \* "first" | "rerun"
    pc,          \* where main is
    idx,         \* the position of main's current loop
    units,       \* the clips phase 3 of main visits, in order
    manifest,    \* the manifest dict main holds, None before it is built
    manifestFile,     \* the manifest file in OUTPUT_DIR, None if absent
    prevManifestFile, \* the manifest file when the current run started
    pipeline,    \* generate_tts_clip._pipeline is set
    inits,       \* KPipeline objects constructed in this run
    synth,       \* the paths synthesis was invoked for in this run, in order
    lastLog,     \* the lines the last step printed
    abortedIn,   \* the function whose exception ended main, "" if none
    \* ---- parse_meditation_file and build_manifest harness
    medStem,     \* the stem of the meditation script file
    medLines,    \* the lines the script file was written from
    medText,     \* the text of the script file
    medClips,    \* the clips parse_meditation_file returned
    medManifest, \* build_manifest(session_id, clips), None before the call
    medPc        \* "input" | "parsed" | "built" | "idle"

slugVars == <<name, slug, reslug, slugPc>>

bilVars == <<description, bilateral, bilPc>>

imgVars == <<region, imgName, images, found, imgPc>>

parseVars == <<blocksIn, content, parsed, parsePc>>

runVars ==
    <<script, defs, deps, outFs, startFs, run, pc, idx, units, manifest,
      manifestFile, prevManifestFile, pipeline, inits, synth, lastLog,
      abortedIn>>

medVars == <<medStem, medLines, medText, medClips, medManifest, medPc>>

vars ==
    <<name, slug, reslug, slugPc, description, bilateral, bilPc,
      region, imgName, images, found, imgPc,
      blocksIn, content, parsed, parsePc,
      script, defs, deps, outFs, startFs, run, pc, idx, units, manifest,
      manifestFile, prevManifestFile, pipeline, inits, synth, lastLog,
      abortedIn, medStem, medLines, medText, medClips, medManifest, medPc>>

\* ------------------------------------------------------------------------
\* Characters
\* ------------------------------------------------------------------------
UpperLetters ==
    <<"A","B","C","D","E","F","G","H","I","J","K","L","M",
      "N","O","P","Q","R","S","T","U","V","W","X","Y","Z","U+00C9">>

LowerLetters ==
    <<"a","b","c","d","e","f","g","h","i","j","k","l","m",
      "n","o","p","q","r","s","t","u","v","w","x","y","z","U+00E9">>

Digits == {"0","1","2","3","4","5","6","7","8","9"}

\* the characters [a-z]
AsciiLower == {LowerLetters[i] : i \in 1..26}

\* the characters [a-z0-9] of the slug regular expression
SlugChars == AsciiLower \cup Digits

\* the characters the class ['\u2019\u2018\u0027] matches
Apostrophes == {"'", "U+2019", "U+2018"}

\* the characters \s matches
Whitespace == {" ", "\n", "\t"}

\* the characters \w matches on a str pattern (Unicode letters included)
WordChars ==
    {UpperLetters[i] : i \in 1..27} \cup {LowerLetters[i] : i \in 1..27}
        \cup Digits \cup {"_"}

\* str.lower() on one character
LowerChar(c) ==
    IF \E i \in 1..27 : UpperLetters[i] = c
    THEN LowerLetters[CHOOSE i \in 1..27 : UpperLetters[i] = c]
    ELSE c

\* str.lower()
lower(s) == [i \in 1..Len(s) |-> LowerChar(s[i])]

\* ------------------------------------------------------------------------
\* String primitives
\* ------------------------------------------------------------------------
\* the suffix of s from position i on (s[i-1:] in Python terms)
From(s, i) == SubSeq(s, i, Len(s))

\* s.startswith(p)
startswith(s, p) == Len(p) <= Len(s) /\ SubSeq(s, 1, Len(p)) = p

\* the pattern literal p occurs in s at position i
OccursAt(s, i, p) ==
    i + Len(p) - 1 <= Len(s) /\ SubSeq(s, i, i + Len(p) - 1) = p

\* length of the maximal run of characters of class cls starting at s[i]
RECURSIVE RunLen(_, _, _)
RunLen(s, i, cls) ==
    IF i > Len(s) \/ s[i] \notin cls THEN 0 ELSE 1 + RunLen(s, i + 1, cls)

\* re.sub(r"[cls]", "", s): delete every character of class cls
ReDeleteClass(s, cls) == SelectSeq(s, LAMBDA c : c \notin cls)

\* re.sub(r"[^keep]+", repl, s): every maximal run of characters outside
\* keep becomes one repl
RECURSIVE ReSubRunsOutside(_, _, _)
ReSubRunsOutside(s, keep, repl) ==
    IF s = <<>> THEN <<>>
    ELSE IF Head(s) \in keep
         THEN <<Head(s)>> \o ReSubRunsOutside(Tail(s), keep, repl)
         ELSE LET n == 1 + RunLen(s, 2, {s[i] : i \in 1..Len(s)} \ keep)
              IN  repl \o ReSubRunsOutside(From(s, n + 1), keep, repl)

\* re.sub(r"c+", c, s): collapse every run of the character c to one c
RECURSIVE ReCollapse(_, _)
ReCollapse(s, c) ==
    IF s = <<>> THEN <<>>
    ELSE IF Head(s) = c
         THEN <<c>> \o ReCollapse(From(s, 2 + RunLen(s, 2, {c})), c)
         ELSE <<Head(s)>> \o ReCollapse(Tail(s), c)

\* s.lstrip(chars)
RECURSIVE lstrip(_, _)
lstrip(s, chars) ==
    IF s # <<>> /\ Head(s) \in chars THEN lstrip(Tail(s), chars) ELSE s

\* s.rstrip(chars)
RECURSIVE rstrip(_, _)
rstrip(s, chars) ==
    IF s # <<>> /\ s[Len(s)] \in chars
    THEN rstrip(SubSeq(s, 1, Len(s) - 1), chars)
    ELSE s

\* s.strip(chars)
strip(s, chars) == rstrip(lstrip(s, chars), chars)

\* ------------------------------------------------------------------------
\* slugify (generate-tts.py)
\* ------------------------------------------------------------------------
\* a slugify that forgets to strip the apostrophes (line 54 missing)
slugify_keeps_apostrophe(n) ==
    strip(ReCollapse(ReSubRunsOutside(lower(n), SlugChars, <<"-">>), "-"),
          {"-"})

\* a slugify that forgets the final strip("-") (line 57 missing)
slugify_no_strip(n) ==
    ReCollapse(
        ReSubRunsOutside(ReDeleteClass(lower(n), Apostrophes),
                         SlugChars, <<"-">>),
        "-")

slugify(n) ==
    LET s1 == lower(n)
        s2 == ReDeleteClass(s1, Apostrophes)
        s3 == ReSubRunsOutside(s2, SlugChars, <<"-">>)
        s4 == ReCollapse(s3, "-")
    IN  strip(s4, {"-"})


\* ------------------------------------------------------------------------
\* slugify, applied to bounded inputs
\* ------------------------------------------------------------------------
\* longest generated display name
MaxNameLen == 4

\* every sequence over S of length at most n
SeqsUpTo(S, n) == UNION {[1..k -> S] : k \in 0..n}

\* characters of the generated names: a lowercase letter, an uppercase
\* letter, a digit, the three apostrophes, a space, a hyphen and an
\* uppercase letter outside ASCII
SlugAlphabet == {"a", "C", "1", "'", "U+2019", "U+2018", " ", "-", "U+00C9"}

ChildsPose == <<"C","h","i","l","d","'","s"," ","P","o","s","e">>

ChildsPoseCurly == <<"C","h","i","l","d","U+2019","s"," ","P","o","s","e">>

SeatedGluteStretch == <<"S","e","a","t","e","d"," ","G","l","u","t","e"," ","S","t","r","e","t","c","h">>

\* the names handed to slugify: every name of at most n characters and
\* three names of the stretch definitions
SlugInputs(n) ==
    SeqsUpTo(SlugAlphabet, n)
        \cup {ChildsPose, ChildsPoseCurly, SeatedGluteStretch}

SlugIdle ==
    /\ name = <<>>
    /\ slug = <<>>
    /\ reslug = <<>>
    /\ slugPc = "idle"

BilIdle ==
    /\ description = <<>>
    /\ bilateral = FALSE
    /\ bilPc = "idle"

\* the (None, None) of find_image
NoImage == [found |-> FALSE, source |-> <<>>, slug |-> <<>>]

ImgIdle ==
    /\ region = <<>>
    /\ imgName = <<>>
    /\ images = {}
    /\ found = NoImage
    /\ imgPc = "idle"

\* what parse_stretch_file has produced before it reads a block
NoParse == [raised |-> FALSE, stretches |-> <<>>, warnings |-> <<>>]

ParseIdle ==
    /\ blocksIn = <<>>
    /\ content = <<>>
    /\ parsed = NoParse
    /\ parsePc = "idle"

RunIdle ==
    /\ script = "idle"
    /\ defs = {}
    /\ deps = FALSE
    /\ outFs = <<>>
    /\ startFs = <<>>
    /\ run = "first"
    /\ pc = "idle"
    /\ idx = 0
    /\ units = <<>>
    /\ manifest = <<>>
    /\ manifestFile = <<>>
    /\ prevManifestFile = <<>>
    /\ pipeline = FALSE
    /\ inits = 0
    /\ synth = <<>>
    /\ lastLog = <<>>
    /\ abortedIn = ""

MedIdle ==
    /\ medStem = <<>>
    /\ medLines = <<>>
    /\ medText = <<>>
    /\ medClips = <<>>
    /\ medManifest = <<>>
    /\ medPc = "idle"

InitSlug ==
    /\ MedIdle
    /\ BilIdle
    /\ ImgIdle
    /\ ParseIdle
    /\ RunIdle
    /\ name \in SlugInputs(MaxNameLen)
    /\ slug = <<>>
    /\ reslug = <<>>
    /\ slugPc = "input"

\* slug = slugify(name)
CallSlugify ==
    /\ slugPc = "input"
    /\ slug' = slugify(name)
    /\ slugPc' = "called"
    /\ UNCHANGED <<name, reslug>>
    /\ UNCHANGED bilVars
    /\ UNCHANGED imgVars
    /\ UNCHANGED parseVars
    /\ UNCHANGED runVars
    /\ UNCHANGED medVars

\* slugify applied to its own output
CallSlugifyOnSlug ==
    /\ slugPc = "called"
    /\ reslug' = slugify(slug)
    /\ slugPc' = "recalled"
    /\ UNCHANGED <<name, slug>>
    /\ UNCHANGED bilVars
    /\ UNCHANGED imgVars
    /\ UNCHANGED parseVars
    /\ UNCHANGED runVars
    /\ UNCHANGED medVars

NextSlug ==
    \/ CallSlugify
    \/ CallSlugifyOnSlug

SpecSlug == InitSlug /\ [][NextSlug]_vars

\* C5: for every input x, slugify(x) holds no uppercase letter, no
\* apostrophe (straight or curly) and no leading or trailing hyphen, and
\* slugify(slugify(x)) = slugify(x).
C5_SlugShapeAndIdempotent ==
    /\ slugPc \in {"called", "recalled"} =>
          /\ \A i \in 1..Len(slug) :
                /\ slug[i] \notin {UpperLetters[k] : k \in 1..27}
                /\ slug[i] \notin Apostrophes
          /\ slug # <<>> => (slug[1] # "-" /\ slug[Len(slug)] # "-")
    /\ slugPc = "recalled" => reslug = slug

\* a name with an uppercase letter, an apostrophe and an outer hyphen has
\* been slugified twice, to a non-empty slug
C5_Witness ==
    /\ slugPc = "recalled"
    /\ slug # <<>>
    /\ \E i \in 1..Len(name) : name[i] = "C"
    /\ \E i \in 1..Len(name) : name[i] \in Apostrophes
    /\ name[Len(name)] = "-"

\* The slug as C6 words it, position by position: t is the lowercased
\* name without its apostrophes; a character of [a-z0-9] stands for
\* itself, the first character of a maximal run outside [a-z0-9] stands
\* for one hyphen when the run has a character of [a-z0-9] somewhere before
\* it and somewhere after it, and every other character stands for nothing.
RECURSIVE EmitFrom(_, _)
EmitFrom(t, i) ==
    IF i > Len(t) THEN <<>>
    ELSE LET inner == /\ \E j \in 1..(i - 1) : t[j] \in SlugChars
                      /\ \E j \in (i + 1)..Len(t) : t[j] \in SlugChars
             first == i = 1 \/ t[i - 1] \in SlugChars
             out   == IF t[i] \in SlugChars THEN <<t[i]>>
                      ELSE IF first /\ inner THEN <<"-">>
                      ELSE <<>>
         IN  out \o EmitFrom(t, i + 1)

SlugAsSpecified(n) ==
    LET low == [i \in 1..Len(n) |-> LowerChar(n[i])]
        kept == {i \in 1..Len(n) : low[i] \notin Apostrophes}
        \* the k-th position of n that holds no apostrophe
        RECURSIVE Nth(_, _)
        Nth(k, from) ==
            LET m == CHOOSE j \in kept : j >= from /\ \A h \in kept : h >= from => j <= h
            IN  IF k = 1 THEN m ELSE Nth(k - 1, m + 1)
        t == [k \in 1..Cardinality(kept) |-> low[Nth(k, 1)]]
    IN  EmitFrom(t, 1)

\* C6: slugify(x) is x lowercased, every apostrophe deleted without a
\* replacement, every maximal run outside [a-z0-9] replaced by one hyphen,
\* outer hyphens stripped; slugify("Child's Pose") = "childs-pose" and
\* the empty name gives the empty slug.
C6_SlugifyAlgorithm ==
    slugPc \in {"called", "recalled"} =>
        /\ slug = SlugAsSpecified(name)
        /\ name = ChildsPose => slug = <<"c","h","i","l","d","s","-","p","o","s","e">>
        /\ name = ChildsPoseCurly => slug = <<"c","h","i","l","d","s","-","p","o","s","e">>
        /\ name = <<>> => slug = <<>>

\* "Child's Pose" has been slugified
C6_Witness ==
    /\ slugPc = "called"
    /\ name = ChildsPose
    /\ slug = <<"c","h","i","l","d","s","-","p","o","s","e">>


\* ------------------------------------------------------------------------
\* is_bilateral (generate-tts.py)
\* ------------------------------------------------------------------------
W_one == <<"o","n","e">>

W_leg == <<"l","e","g">>

W_arm == <<"a","r","m">>

W_knee == <<"k","n","e","e">>

W_foot == <<"f","o","o","t">>

W_side == <<"s","i","d","e">>

W_hand == <<"h","a","n","d">>

W_opposite == <<"o","p","p","o","s","i","t","e">>

W_other == <<"o","t","h","e","r">>

W_switch == <<"s","w","i","t","c","h">>

W_sides == <<"s","i","d","e","s">>

W_alternate == <<"a","l","t","e","r","n","a","t","e">>

W_each == <<"e","a","c","h">>

W_not == <<"n","o","t">>

\* A pattern \bHEAD\b is [head |-> HEAD, tails |-> {}]; a pattern
\* \bHEAD\s+(T1|T2|...)\b is [head |-> HEAD, tails |-> {T1, T2, ...}]
\* (sides? is the alternation side|sides).
BILATERAL_PATTERNS ==
    << [head  |-> W_one,
        tails |-> {W_leg, W_arm, W_knee, W_foot, W_side, W_hand}],
       [head |-> W_opposite, tails |-> {}],
       [head |-> W_other, tails |-> {W_side}],
       [head |-> W_switch, tails |-> {W_side, W_sides}],
       [head |-> W_alternate, tails |-> {}],
       [head |-> W_each, tails |-> {W_side}] >>

\* \b holds between s[i-1] and s[i] (i = Len(s) + 1 is the end)
WordBoundary(s, i) ==
    (i > 1 /\ s[i - 1] \in WordChars) # (i <= Len(s) /\ s[i] \in WordChars)

\* the pattern p matches s starting at position i
ReMatchAt(p, s, i) ==
    /\ WordBoundary(s, i)
    /\ OccursAt(s, i, p.head)
    /\ LET j == i + Len(p.head)
       IN  IF p.tails = {}
           THEN WordBoundary(s, j)
           ELSE LET w == RunLen(s, j, Whitespace)
                IN  /\ w >= 1
                    /\ \E t \in p.tails :
                          /\ OccursAt(s, j + w, t)
                          /\ WordBoundary(s, j + w + Len(t))

\* re.search(p, s) finds a match
re_search(p, s) == \E i \in 1..Len(s) : ReMatchAt(p, s, i)

\* the loop of is_bilateral from pattern k on: True at the first match
RECURSIVE BilateralFrom(_, _)
BilateralFrom(text, k) ==
    IF k > Len(BILATERAL_PATTERNS) THEN FALSE
    ELSE IF re_search(BILATERAL_PATTERNS[k], text) THEN TRUE
    ELSE BilateralFrom(text, k + 1)

\* an is_bilateral that forgets description.lower() (line 63 missing)
is_bilateral_case_sensitive(d) == BilateralFrom(d, 1)

\* an is_bilateral that handles negation: a match right after "not" and
\* whitespace does not count
is_bilateral_negation_aware(d) ==
    LET text == lower(d)
    IN  \E k \in 1..Len(BILATERAL_PATTERNS) : \E i \in 1..Len(text) :
            /\ ReMatchAt(BILATERAL_PATTERNS[k], text, i)
            /\ ~ \E n \in 1..(i - 1) :
                    /\ OccursAt(text, n, W_not)
                    /\ WordBoundary(text, n)
                    /\ RunLen(text, n + 3, Whitespace) >= 1
                    /\ n + 3 + RunLen(text, n + 3, Whitespace) = i

is_bilateral(d) == BilateralFrom(lower(d), 1)


\* ------------------------------------------------------------------------
\* is_bilateral, applied to bounded inputs
\* ------------------------------------------------------------------------
HoldOneLegUp == <<"H","o","l","d"," ","o","n","e"," ","l","e","g"," ","u","p">>

HoldBothArmsOverhead == <<"H","o","l","d"," ","b","o","t","h"," ","a","r","m","s"," ","o","v","e","r","h","e","a","d">>

NotAlternating == <<"n","o","t"," ","a","l","t","e","r","n","a","t","i","n","g">>

HoldNotAlternating == <<"H","o","l","d"," ","s","t","i","l","l",","," ","n","o","t"," ","a","l","t","e","r","n","a","t","i","n","g",".">>

NotAlternatingOtherSide == <<"N","o","t"," ","a","l","t","e","r","n","a","t","i","n","g",";"," ","r","e","p","e","a","t"," ","o","n"," ","t","h","e"," ","o","t","h","e","r"," ","s","i","d","e">>

DoNotAlternate == <<"D","o"," ","n","o","t"," ","a","l","t","e","r","n","a","t","e">>

OtherSide == <<"R","e","p","e","a","t"," ","o","n"," ","t","h","e"," ","O","T","H","E","R"," ","s","i","d","e",".">>

OppositeWall == <<"R","e","a","c","h"," ","f","o","r"," ","t","h","e"," ","o","p","p","o","s","i","t","e"," ","w","a","l","l">>

EachSide == <<"H","o","l","d"," ","e","a","c","h","\t","s","i","d","e">>

SwitchSide == <<"s","w","i","t","c","h"," ","s","i","d","e">>

OneKneeNewline == <<"o","n","e"," ","\n"," ","k","n","e","e">>

BoneLeg == <<"b","o","n","e"," ","l","e","g">>

OneUnderscoreLeg == <<"o","n","e","_","l","e","g">>

OneFootball == <<"o","n","e"," ","f","o","o","t","b","a","l","l">>

Alternately == <<"a","l","t","e","r","n","a","t","e","l","y">>

W_alternating == <<"a","l","t","e","r","n","a","t","i","n","g">>

\* most words in a generated description
MaxDescWords == 3

DescWords ==
    {W_one, W_leg, <<"l","e","g","s">>, <<"S","w","i","t","c","h">>, W_sides, W_alternate,
     W_alternating, W_not}

DescSeparators == {<<" ">>, <<"-">>}

\* the descriptions of exactly k words
RECURSIVE DescsOf(_)
DescsOf(k) ==
    IF k = 1 THEN DescWords
    ELSE {d \o sep \o w : d \in DescsOf(k - 1), sep \in DescSeparators,
                          w \in DescWords}

\* the descriptions handed to is_bilateral: every description of at most
\* n generated words and the fixed ones
DescInputs(n) ==
    UNION {DescsOf(k) : k \in 1..n}
        \cup {<<>>, HoldOneLegUp, HoldBothArmsOverhead, NotAlternating, HoldNotAlternating, NotAlternatingOtherSide, DoNotAlternate, OtherSide, OppositeWall, EachSide, SwitchSide, OneKneeNewline, BoneLeg, OneUnderscoreLeg, OneFootball, Alternately}

InitBilateral ==
    /\ MedIdle
    /\ SlugIdle
    /\ ImgIdle
    /\ ParseIdle
    /\ RunIdle
    /\ description \in DescInputs(MaxDescWords)
    /\ bilateral = FALSE
    /\ bilPc = "input"

\* bilateral = is_bilateral(description)
CallIsBilateral ==
    /\ bilPc = "input"
    /\ bilateral' = is_bilateral(description)
    /\ bilPc' = "called"
    /\ UNCHANGED description
    /\ UNCHANGED slugVars
    /\ UNCHANGED imgVars
    /\ UNCHANGED parseVars
    /\ UNCHANGED runVars
    /\ UNCHANGED medVars

NextBilateral == CallIsBilateral

SpecBilateral == InitBilateral /\ [][NextBilateral]_vars

\* The fixed patterns read as whole words.  A word is a maximal run of
\* word characters; the gap after it is the run of other characters up to
\* the next word.
WordStarts(t) ==
    {i \in 1..Len(t) : t[i] \in WordChars /\ (i = 1 \/ t[i - 1] \notin WordChars)}

WordFrom(t, i) == SubSeq(t, i, i + RunLen(t, i, WordChars) - 1)

BilateralAsSpecified(d) ==
    LET t == [i \in 1..Len(d) |-> LowerChar(d[i])]
        nonword == {t[i] : i \in 1..Len(t)} \ WordChars
    IN  \E i \in WordStarts(t) :
            LET w      == WordFrom(t, i)
                e      == i + Len(w)
                g      == RunLen(t, e, nonword)
                spaced == g >= 1 /\ \A j \in e..(e + g - 1) : t[j] \in Whitespace
                nxt    == WordFrom(t, e + g)
            IN  \/ w = W_opposite
                \/ w = W_alternate
                \/ /\ w = W_one
                   /\ spaced
                   /\ nxt \in {W_leg, W_arm, W_knee, W_foot, W_side, W_hand}
                \/ w = W_other /\ spaced /\ nxt = W_side
                \/ w = W_switch /\ spaced /\ nxt \in {W_side, W_sides}
                \/ w = W_each /\ spaced /\ nxt = W_side

\* C7: is_bilateral(d) is true exactly when the lowercased d holds one of
\* the fixed patterns as whole words, whatever the letter case and the
\* pattern order; "Hold one leg up" is bilateral and "Hold both arms
\* overhead" is not.
C7_BilateralExactlyOnPattern ==
    bilPc = "called" =>
        /\ bilateral = BilateralAsSpecified(description)
        /\ description = HoldOneLegUp => bilateral
        /\ description = HoldBothArmsOverhead => ~bilateral

\* is_bilateral("Hold one leg up") has returned True
C7_Witness ==
    /\ bilPc = "called"
    /\ description = HoldOneLegUp
    /\ bilateral

\* the text holds the words "not alternating"
HasNotAlternating(t) ==
    \E i \in 1..Len(t) : OccursAt(t, i, W_not \o <<" ">> \o W_alternating)

\* the text without its first "not alternating"
WithoutNotAlternating(t) ==
    LET i == CHOOSE j \in 1..Len(t) :
                 /\ OccursAt(t, j, W_not \o <<" ">> \o W_alternating)
                 /\ \A h \in 1..(j - 1) :
                        ~OccursAt(t, h, W_not \o <<" ">> \o W_alternating)
    IN  SubSeq(t, 1, i - 1) \o From(t, i + 15)

\* a description with "not alternating" and no other bilateral keyword
OnlyNotAlternating(d) ==
    /\ HasNotAlternating(lower(d))
    /\ ~BilateralAsSpecified(WithoutNotAlternating(lower(d)))

\* a keyword pattern stands right after the word "not" and whitespace
NegatedKeyword(t) ==
    \E n \in 1..Len(t) : \E k \in 1..Len(BILATERAL_PATTERNS) :
        /\ OccursAt(t, n, W_not)
        /\ WordBoundary(t, n)
        /\ RunLen(t, n + 3, Whitespace) >= 1
        /\ ReMatchAt(BILATERAL_PATTERNS[k], t,
                     n + 3 + RunLen(t, n + 3, Whitespace))

\* C8 as the specification words it: a description with the words "not
\* alternating" and no other bilateral keyword is flagged bilateral.
C8_NotAlternatingFlagged ==
    (bilPc = "called" /\ OnlyNotAlternating(description)) => bilateral

\* C8, amended: there is no negation handling, so a keyword right after
\* "not" (as in "Do not alternate") is still flagged; "alternating" is no
\* keyword (the pattern is the whole word "alternate"), so a description
\* with "not alternating" and no other keyword is not flagged.
C8_NoNegationHandling ==
    bilPc = "called" =>
        /\ NegatedKeyword(lower(description)) => bilateral
        /\ OnlyNotAlternating(description) => ~bilateral

\* is_bilateral("not alternating") has returned False
C8_Witness ==
    /\ bilPc = "called"
    /\ description = NotAlternating
    /\ ~bilateral


\* ------------------------------------------------------------------------
\* find_image (generate-tts.py)
\* ------------------------------------------------------------------------
R_calves == <<"c","a","l","v","e","s">>

R_calf == <<"c","a","l","f">>

R_glutes == <<"g","l","u","t","e","s">>

R_glute == <<"g","l","u","t","e">>

R_hamstrings == <<"h","a","m","s","t","r","i","n","g","s">>

R_hamstring == <<"h","a","m","s","t","r","i","n","g">>

R_quads == <<"q","u","a","d","s">>

R_quad == <<"q","u","a","d">>

R_shoulders == <<"s","h","o","u","l","d","e","r","s">>

R_shoulder == <<"s","h","o","u","l","d","e","r">>

R_hip_flexors == <<"h","i","p","_","f","l","e","x","o","r","s">>

R_hip_sp_flexor == <<"h","i","p"," ","f","l","e","x","o","r">>

R_hip_hy_flexor == <<"h","i","p","-","f","l","e","x","o","r">>

R_neck == <<"n","e","c","k">>

R_back == <<"b","a","c","k">>

\* the keys of region_alternatives
AliasedRegions ==
    {R_calves, R_glutes, R_hamstrings, R_quads, R_shoulders, R_hip_flexors}

region_alternatives ==
    [r \in AliasedRegions |->
        CASE r = R_calves      -> <<R_calf, R_calves>>
          [] r = R_glutes      -> <<R_glute, R_glutes>>
          [] r = R_hamstrings  -> <<R_hamstring, R_hamstrings>>
          [] r = R_quads       -> <<R_quad, R_quads>>
          [] r = R_shoulders   -> <<R_shoulder, R_shoulders>>
          [] r = R_hip_flexors ->
                <<R_hip_sp_flexor, R_hip_hy_flexor, R_hip_flexors>>]

\* region_alternatives.get(region, [region])
regions_to_try(reg) ==
    IF reg \in AliasedRegions THEN region_alternatives[reg] ELSE <<reg>>

\* re.sub(r"['\u2019\u2018\u0027]s\b", "-s", s)
RECURSIVE ReSubApostropheS(_, _)
ReSubApostropheS(s, i) ==
    IF i > Len(s) THEN <<>>
    ELSE IF /\ s[i] \in Apostrophes
            /\ i + 1 <= Len(s)
            /\ s[i + 1] = "s"
            /\ WordBoundary(s, i + 2)
         THEN <<"-", "s">> \o ReSubApostropheS(s, i + 2)
         ELSE <<s[i]>> \o ReSubApostropheS(s, i + 1)

\* the legacy slug of find_image: the apostrophe of 's kept as -s
legacy_slug(n) ==
    LET s1 == lower(n)
        s2 == ReSubApostropheS(s1, 1)
        s3 == ReSubRunsOutside(s2, SlugChars, <<"-">>)
        s4 == ReCollapse(s3, "-")
    IN  strip(s4, {"-"})

\* slugs_to_try: the current slug, then the legacy slug when it differs
slugs_to_try(n) ==
    IF legacy_slug(n) # slugify(n)
    THEN <<slugify(n), legacy_slug(n)>>
    ELSE <<slugify(n)>>

DotPng == <<".", "p", "n", "g">>

\* f"{reg}-{s}.png"
Candidate(reg, s) == reg \o <<"-">> \o s \o DotPng

\* the inner loop of find_image over slugs_to_try from index k on, for
\* one alias; <<>> when no candidate of this alias exists
RECURSIVE TrySlugs(_, _, _, _)
TrySlugs(reg, slugs, k, dir) ==
    IF k > Len(slugs) THEN <<>>
    ELSE IF Candidate(reg, slugs[k]) \in dir THEN Candidate(reg, slugs[k])
    ELSE TrySlugs(reg, slugs, k + 1, dir)

\* the outer loop of find_image over regions_to_try from index a on
RECURSIVE TryRegions(_, _, _, _)
TryRegions(regs, a, slugs, dir) ==
    IF a > Len(regs) THEN <<>>
    ELSE IF TrySlugs(regs[a], slugs, 1, dir) # <<>>
         THEN TrySlugs(regs[a], slugs, 1, dir)
         ELSE TryRegions(regs, a + 1, slugs, dir)

\* a find_image that tries the legacy slug before the current one
find_image_legacy_first(reg, n, dir) ==
    LET slugs == IF legacy_slug(n) # slugify(n)
                 THEN <<legacy_slug(n), slugify(n)>>
                 ELSE <<slugify(n)>>
        hit   == TryRegions(regions_to_try(reg), 1, slugs, dir)
    IN  IF hit # <<>>
        THEN [found |-> TRUE, source |-> hit, slug |-> slugify(n)]
        ELSE NoImage

\* find_image(region, name), with dir the names in IMAGES_SOURCE_DIR
find_image(reg, n, dir) ==
    LET hit == TryRegions(regions_to_try(reg), 1, slugs_to_try(n), dir)
    IN  IF hit # <<>>
        THEN [found |-> TRUE, source |-> hit, slug |-> slugify(n)]
        ELSE NoImage

\* ------------------------------------------------------------------------
\* find_image, applied to bounded inputs
\* ------------------------------------------------------------------------
CatsCow == <<"C","a","t","'","s"," ","C","o","w">>

ImageRegions == {R_glutes, R_neck, R_hip_flexors, R_calves}

ImageNames == {SeatedGluteStretch, ChildsPose, ChildsPoseCurly, CatsCow}

\* every name find_image can ask for, for one region and one display
\* name, and the names another region or the other names would give
ImageUniverse(reg, n) ==
    {Candidate(regions_to_try(reg)[a], s) :
        a \in 1..Len(regions_to_try(reg)),
        s \in {slugify(n), legacy_slug(n)}}
      \cup {Candidate(reg, s) : s \in {slugify(n), legacy_slug(n)}}
      \cup {Candidate(R_back, slugify(n))}

InitImage ==
    /\ MedIdle
    /\ SlugIdle
    /\ BilIdle
    /\ ParseIdle
    /\ RunIdle
    /\ region \in ImageRegions
    /\ imgName \in ImageNames
    /\ images \in SUBSET ImageUniverse(region, imgName)
    /\ found = NoImage
    /\ imgPc = "input"

\* found = find_image(region, imgName)
CallFindImage ==
    /\ imgPc = "input"
    /\ found' = find_image(region, imgName, images)
    /\ imgPc' = "called"
    /\ UNCHANGED <<region, imgName, images>>
    /\ UNCHANGED slugVars
    /\ UNCHANGED bilVars
    /\ UNCHANGED parseVars
    /\ UNCHANGED runVars
    /\ UNCHANGED medVars

NextImage == CallFindImage

SpecImage == InitImage /\ [][NextImage]_vars

\* the candidates as C9 orders them: (a, k) is alias a with slug k, slug 1
\* the current slug and slug 2 the legacy slug, tried when it differs
CandidateRanks(reg, n) ==
    {<<a, k>> : a \in 1..Len(regions_to_try(reg)),
                k \in IF legacy_slug(n) = slugify(n) THEN {1} ELSE {1, 2}}

RankedCandidate(reg, n, r) ==
    Candidate(regions_to_try(reg)[r[1]],
              IF r[2] = 1 THEN slugify(n) ELSE legacy_slug(n))

RankBefore(r, q) == r[1] < q[1] \/ (r[1] = q[1] /\ r[2] < q[2])

\* C9: find_image returns the first existing candidate <alias>-<slug>.png,
\* aliases in list order (the region itself without an alias entry) and
\* the current slug before the legacy slug, together with the current
\* slug, and (None, None) when none exists; glutes / "Seated Glute
\* Stretch" resolves an existing glute-seated-glute-stretch.png.
C9_FindImageFirstCandidate ==
    imgPc = "called" =>
        LET present == {r \in CandidateRanks(region, imgName) :
                           RankedCandidate(region, imgName, r) \in images}
        IN  /\ present = {} => found = NoImage
            /\ present # {} =>
                  \E r \in present :
                     /\ \A q \in present : ~RankBefore(q, r)
                     /\ found.found
                     /\ found.source = RankedCandidate(region, imgName, r)
                     /\ found.slug = slugify(imgName)
            /\ ( /\ region = R_glutes
                 /\ imgName = SeatedGluteStretch
                 /\ <<"g","l","u","t","e","-","s","e","a","t","e","d","-","g","l","u","t","e","-","s","t","r","e","t","c","h",".","p","n","g">> \in images )
               => /\ found.found
                  /\ found.source = <<"g","l","u","t","e","-","s","e","a","t","e","d","-","g","l","u","t","e","-","s","t","r","e","t","c","h",".","p","n","g">>
                  /\ found.slug = <<"s","e","a","t","e","d","-","g","l","u","t","e","-","s","t","r","e","t","c","h">>

\* find_image("glutes", "Seated Glute Stretch") has resolved
\* glute-seated-glute-stretch.png
C9_Witness ==
    /\ imgPc = "called"
    /\ region = R_glutes
    /\ imgName = SeatedGluteStretch
    /\ found.found
    /\ found.source = <<"g","l","u","t","e","-","s","e","a","t","e","d","-","g","l","u","t","e","-","s","t","r","e","t","c","h",".","p","n","g">>


\* ------------------------------------------------------------------------
\* parse_stretch_file (generate-tts.py)
\* ------------------------------------------------------------------------
\* the first position at or after i where sep occurs in s, 0 when none
RECURSIVE FindFrom(_, _, _)
FindFrom(s, sep, i) ==
    IF i + Len(sep) - 1 > Len(s) THEN 0
    ELSE IF OccursAt(s, i, sep) THEN i
    ELSE FindFrom(s, sep, i + 1)

\* s.split(sep)
RECURSIVE split(_, _)
split(s, sep) ==
    LET i == FindFrom(s, sep, 1)
    IN  IF i = 0 THEN <<s>>
        ELSE <<SubSeq(s, 1, i - 1)>> \o split(From(s, i + Len(sep)), sep)

\* s.split(sep, 1)
split1(s, sep) ==
    LET i == FindFrom(s, sep, 1)
    IN  IF i = 0 THEN <<s>>
        ELSE <<SubSeq(s, 1, i - 1), From(s, i + Len(sep))>>

\* sep.join(parts)
RECURSIVE join(_, _)
join(parts, sep) ==
    IF parts = <<>> THEN <<>>
    ELSE IF Len(parts) = 1 THEN parts[1]
    ELSE parts[1] \o sep \o join(Tail(parts), sep)

Delimiter == <<"-", "-", "-", "-">>

BeginWav == <<"-","b","e","g","i","n",".","w","a","v">>

\* None and a present value of an optional field
None == <<>>

Some(x) == <<x>>

\* the keys of a stretch dict that start with "_"
InternalKeys == {"_image_source", "_slug"}

\* a stretch dict whose audio path is built from the id instead of the
\* slug
StretchDict_id_paths(block, reg, dir) ==
    LET parts       == split1(block, <<":">>)
        nm          == strip(parts[1], Whitespace)
        desc        == strip(parts[2], Whitespace)
        sl          == slugify(nm)
        stretch_id  == IF ~startswith(sl, reg) THEN reg \o <<"-">> \o sl ELSE sl
        image       == find_image(reg, nm, dir)
    IN  [id            |-> stretch_id,
         name          |-> nm,
         description   |-> desc,
         bilateral     |-> is_bilateral(desc),
         image         |-> IF image.found
                           THEN Some(reg \o <<"/">> \o sl \o DotPng)
                           ELSE None,
         audioFiles    |-> [begin |-> reg \o <<"/">> \o stretch_id \o BeginWav]]
        @@ ("_image_source" :> (IF image.found THEN Some(image.source) ELSE None))
        @@ ("_slug" :> sl)

\* the dict appended for one block (lines 144-165)
StretchDict(block, reg, dir) ==
    LET parts       == split1(block, <<":">>)
        nm          == strip(parts[1], Whitespace)
        desc        == strip(parts[2], Whitespace)
        sl          == slugify(nm)
        stretch_id  == IF ~startswith(sl, reg) THEN reg \o <<"-">> \o sl ELSE sl
        image       == find_image(reg, nm, dir)
    IN  [id            |-> stretch_id,
         name          |-> nm,
         description   |-> desc,
         bilateral     |-> is_bilateral(desc),
         image         |-> IF image.found
                           THEN Some(reg \o <<"/">> \o sl \o DotPng)
                           ELSE None,
         audioFiles    |-> [begin |-> reg \o <<"/">> \o sl \o BeginWav]]
        @@ ("_image_source" :> (IF image.found THEN Some(image.source) ELSE None))
        @@ ("_slug" :> sl)

\* the loop over stretch_blocks from block k on; acc is what the loop has
\* built; a block that reaches the unpacking of line 144 without a colon
\* raises ValueError
RECURSIVE ParseBlocks(_, _, _, _, _)
ParseBlocks(blocks, k, reg, dir, acc) ==
    IF k > Len(blocks) \/ acc.raised THEN acc
    ELSE LET block == strip(blocks[k], Whitespace)
         IN  IF block = <<>>
             THEN ParseBlocks(blocks, k + 1, reg, dir, acc)
             ELSE IF FindFrom(block, <<":">>, 1) = 0
             THEN ParseBlocks(blocks, k + 1, reg, dir,
                      [acc EXCEPT !.warnings = Append(@, block)])
             ELSE ParseBlocks(blocks, k + 1, reg, dir,
                      [acc EXCEPT !.stretches =
                          Append(@, StretchDict(block, reg, dir))])

\* the same loop without the guard of lines 140-142
RECURSIVE ParseBlocksUnguarded(_, _, _, _, _)
ParseBlocksUnguarded(blocks, k, reg, dir, acc) ==
    IF k > Len(blocks) \/ acc.raised THEN acc
    ELSE LET block == strip(blocks[k], Whitespace)
         IN  IF block = <<>>
             THEN ParseBlocksUnguarded(blocks, k + 1, reg, dir, acc)
             ELSE IF Len(split1(block, <<":">>)) # 2
             THEN [acc EXCEPT !.raised = TRUE]
             ELSE ParseBlocksUnguarded(blocks, k + 1, reg, dir,
                      [acc EXCEPT !.stretches =
                          Append(@, StretchDict(block, reg, dir))])

\* the blocks of a definition file: the text after the header line, split
\* at every "----" (lines 122-131)
stretch_blocks(text) ==
    LET stripped  == strip(text, Whitespace)
        lines     == split(stripped, <<"\n">>)
        remaining == join(Tail(lines), <<"\n">>)
    IN  split(remaining, Delimiter)

\* a parse_stretch_file without the malformed-block guard
parse_stretch_file_unguarded(text, reg, dir) ==
    ParseBlocksUnguarded(stretch_blocks(text), 1, reg, dir, NoParse)

\* parse_stretch_file of the file reg.md with the given text; dir is the
\* content of IMAGES_SOURCE_DIR
parse_stretch_file(text, reg, dir) ==
    ParseBlocks(stretch_blocks(text), 1, reg, dir, NoParse)


\* ------------------------------------------------------------------------
\* parse_stretch_file, applied to bounded definition files
\* ------------------------------------------------------------------------
\* most blocks in a generated definition file
MaxBlocks == 3

\* A block as its author wrote it: the text of the block, whether it holds
\* a colon, and, when it does, the name and the description meant.
B_Tilt ==
    [text  |-> <<"T","i","l","t",":"," ","L","e","a","n"," ","t","o"," ","o","n","e"," ","s","i","d","e">>,
     colon |-> TRUE,
     name  |-> <<"T","i","l","t">>,
     description |-> <<"L","e","a","n"," ","t","o"," ","o","n","e"," ","s","i","d","e">>]

B_ChildsPose ==
    [text  |-> <<"C","h","i","l","d","'","s"," ","P","o","s","e"," ",":","R","e","s","t",":"," ","b","r","e","a","t","h","e","\n","s","l","o","w","l","y"," ">>,
     colon |-> TRUE,
     name  |-> ChildsPose,
     description |-> <<"R","e","s","t",":"," ","b","r","e","a","t","h","e","\n","s","l","o","w","l","y">>]

B_NeckRoll ==
    [text  |-> <<"\t","N","e","c","k"," ","R","o","l","l",":","B","o","t","h">>,
     colon |-> TRUE,
     name  |-> <<"N","e","c","k"," ","R","o","l","l">>,
     description |-> <<"B","o","t","h">>]

B_Roll ==
    [text  |-> <<"R","o","l","l",":"," ","C","i","r","c","l","e">>,
     colon |-> TRUE,
     name  |-> <<"R","o","l","l">>,
     description |-> <<"C","i","r","c","l","e">>]

B_NoName ==
    [text  |-> <<":","x">>,
     colon |-> TRUE,
     name  |-> <<>>,
     description |-> <<"x">>]

B_Malformed ==
    [text  |-> <<"C","h","i","n"," ","T","u","c","k"," ","-"," ","n","o"," ","c","o","l","o","n">>,
     colon |-> FALSE,
     name  |-> <<>>,
     description |-> <<>>]

B_Blank ==
    [text  |-> <<" ","\n">>,
     colon |-> FALSE,
     name  |-> <<>>,
     description |-> <<>>]

BlockChoices ==
    {B_Tilt, B_ChildsPose, B_NeckRoll, B_Roll, B_NoName, B_Malformed,
     B_Blank}

HeaderChoices == {<<"N","e","c","k"," ","S","t","r","e","t","c","h","e","s">>, <<" ","N","e","c","k",":"," ","a","l","l">>}

DelimiterLine == <<"\n">> \o Delimiter \o <<"\n">>

\* the definition file written from a header and blocks
FileText(header, blocks) ==
    header \o <<"\n">> \o join([k \in 1..Len(blocks) |-> blocks[k].text],
                               DelimiterLine)

\* the file of the specification's example: three valid blocks and one
\* malformed block
ThreeValidOneMalformed == <<B_Tilt, B_Malformed, B_ChildsPose, B_NeckRoll>>

NeckImages ==
    {{}, {<<"n","e","c","k","-","c","h","i","l","d","-","s","-","p","o","s","e",".","p","n","g">>, <<"n","e","c","k","-","t","i","l","t",".","p","n","g">>}}

InitParse ==
    /\ MedIdle
    /\ SlugIdle
    /\ BilIdle
    /\ RunIdle
    /\ imgName = <<>>
    /\ found = NoImage
    /\ imgPc = "idle"
    /\ region = R_neck
    /\ images \in NeckImages
    /\ blocksIn \in SeqsUpTo(BlockChoices, MaxBlocks) \cup {ThreeValidOneMalformed}
    /\ \E h \in HeaderChoices : content = FileText(h, blocksIn)
    /\ parsed = NoParse
    /\ parsePc = "input"

\* parsed = parse_stretch_file(region.md)
CallParseStretchFile ==
    /\ parsePc = "input"
    /\ parsed' = parse_stretch_file(content, region, images)
    /\ parsePc' = "called"
    /\ UNCHANGED <<blocksIn, content>>
    /\ UNCHANGED slugVars
    /\ UNCHANGED bilVars
    /\ UNCHANGED imgVars
    /\ UNCHANGED runVars
    /\ UNCHANGED medVars

NextParse == CallParseStretchFile

SpecParse == InitParse /\ [][NextParse]_vars

\* the blocks with a colon, and the blocks with text and no colon
ValidBlocks(blocks) == SelectSeq(blocks, LAMBDA b : b.colon)

MalformedBlocks(blocks) ==
    SelectSeq(blocks, LAMBDA b : ~b.colon /\ b # B_Blank)

\* C4: parse_stretch_file never raises on a malformed block; a block with
\* text and no colon is skipped with a warning, a block with a colon gives
\* exactly one record, in file order, name and description split at the
\* first colon; N valid blocks and one malformed block give N records.
C4_ParseSkipsMalformed ==
    parsePc = "called" =>
        /\ ~parsed.raised
        /\ Len(parsed.stretches) = Len(ValidBlocks(blocksIn))
        /\ \A k \in 1..Len(parsed.stretches) :
              /\ parsed.stretches[k].name = ValidBlocks(blocksIn)[k].name
              /\ parsed.stretches[k].description =
                     ValidBlocks(blocksIn)[k].description
        /\ Len(parsed.warnings) = Len(MalformedBlocks(blocksIn))
        /\ blocksIn = ThreeValidOneMalformed => Len(parsed.stretches) = 3

\* the file with three valid blocks and one malformed block has been
\* parsed, to three records and one warning
C4_Witness ==
    /\ parsePc = "called"
    /\ blocksIn = ThreeValidOneMalformed
    /\ Len(parsed.stretches) = 3
    /\ Len(parsed.warnings) = 1


\* ------------------------------------------------------------------------
\* sorted(DIR.glob("*.md")) (both generators)
\* ------------------------------------------------------------------------
\* the characters of file names, in code point order
CharOrder ==
    <<" ", "'", "-", ".", "0", "1", "2", "3", "4", "5", "6", "7", "8", "9",
      "A", "B", "C", "D", "E", "F", "G", "H", "I", "J", "K", "L", "M",
      "N", "O", "P", "Q", "R", "S", "T", "U", "V", "W", "X", "Y", "Z", "_",
      "a", "b", "c", "d", "e", "f", "g", "h", "i", "j", "k", "l", "m",
      "n", "o", "p", "q", "r", "s", "t", "u", "v", "w", "x", "y", "z">>

CharRank(c) == CHOOSE i \in 1..Len(CharOrder) : CharOrder[i] = c

\* a < b for two str
RECURSIVE StrLess(_, _)
StrLess(a, b) ==
    IF b = <<>> THEN FALSE
    ELSE IF a = <<>> THEN TRUE
    ELSE IF Head(a) = Head(b) THEN StrLess(Tail(a), Tail(b))
    ELSE CharRank(Head(a)) < CharRank(Head(b))

DotMd == <<".", "m", "d">>

\* the stems of the *.md files of a directory, sorted by file name
RECURSIVE sorted_stems(_)
sorted_stems(stems) ==
    IF stems = {} THEN <<>>
    ELSE LET first == CHOOSE x \in stems :
                         \A y \in stems \ {x} : StrLess(x \o DotMd, y \o DotMd)
         IN  <<first>> \o sorted_stems(stems \ {first})

\* ------------------------------------------------------------------------
\* parse_meditation_file (generate-tts-meditation.py)
\* ------------------------------------------------------------------------
\* a dict assignment that keeps the value a key already has
DictSet_first_wins(items, key, val) ==
    IF \E i \in 1..Len(items) : items[i].id = key
    THEN items
    ELSE Append(items, [id |-> key, text |-> val])

\* clips[clip_id] = text on a dict kept as its items in insertion order
DictSet(items, key, val) ==
    IF \E i \in 1..Len(items) : items[i].id = key
    THEN [i \in 1..Len(items) |->
             IF items[i].id = key THEN [id |-> key, text |-> val] ELSE items[i]]
    ELSE Append(items, [id |-> key, text |-> val])

\* the loop over lines[1:] from line k on
RECURSIVE ParseLines(_, _, _)
ParseLines(lines, k, acc) ==
    IF k > Len(lines) THEN acc
    ELSE LET line == strip(lines[k], Whitespace)
         IN  IF line = <<>> \/ line = Delimiter
             THEN ParseLines(lines, k + 1, acc)
             ELSE IF startswith(line, <<"#", "#", " ">>)
             THEN ParseLines(lines, k + 1,
                      [acc EXCEPT !.current_section =
                          Some(lower(strip(From(line, 4), Whitespace)))])
             ELSE IF FindFrom(line, <<":">>, 1) # 0 /\ ~startswith(line, <<"#">>)
             THEN LET parts   == split1(line, <<":">>)
                      clip_id == strip(parts[1], Whitespace)
                      text    == strip(parts[2], Whitespace)
                  IN  IF clip_id # <<>> /\ text # <<>>
                      THEN ParseLines(lines, k + 1,
                               [acc EXCEPT !.clips = DictSet(@, clip_id, text)])
                      ELSE ParseLines(lines, k + 1, acc)
             ELSE ParseLines(lines, k + 1, acc)

\* parse_meditation_file: the clips of one script file, as dict items
parse_meditation_file(text) ==
    LET lines == split(strip(text, Whitespace), <<"\n">>)
    IN  ParseLines(lines, 2, [clips |-> <<>>, current_section |-> None]).clips

\* ------------------------------------------------------------------------
\* build_manifest (generate-tts-meditation.py)
\* ------------------------------------------------------------------------
\* the file names of build_manifest, after the session's base path
F_intro_welcome == <<"/","i","n","t","r","o","-","w","e","l","c","o","m","e",".","w","a","v">>

F_breathing_settle == <<"/","b","r","e","a","t","h","i","n","g","-","s","e","t","t","l","e",".","w","a","v">>

F_breathing_rhythm == <<"/","b","r","e","a","t","h","i","n","g","-","r","h","y","t","h","m",".","w","a","v">>

F_breathing_reminder_1 == <<"/","b","r","e","a","t","h","i","n","g","-","r","e","m","i","n","d","e","r","-","1",".","w","a","v">>

F_breathing_reminder_2 == <<"/","b","r","e","a","t","h","i","n","g","-","r","e","m","i","n","d","e","r","-","2",".","w","a","v">>

F_breathing_reminder_3 == <<"/","b","r","e","a","t","h","i","n","g","-","r","e","m","i","n","d","e","r","-","3",".","w","a","v">>

F_breathing_deepen == <<"/","b","r","e","a","t","h","i","n","g","-","d","e","e","p","e","n",".","w","a","v">>

F_closing_transition == <<"/","c","l","o","s","i","n","g","-","t","r","a","n","s","i","t","i","o","n",".","w","a","v">>

F_closing_gratitude == <<"/","c","l","o","s","i","n","g","-","g","r","a","t","i","t","u","d","e",".","w","a","v">>

F_intro_posture == <<"/","i","n","t","r","o","-","p","o","s","t","u","r","e",".","w","a","v">>

F_breathing_midpoint == <<"/","b","r","e","a","t","h","i","n","g","-","m","i","d","p","o","i","n","t",".","w","a","v">>

F_closing_awakening == <<"/","c","l","o","s","i","n","g","-","a","w","a","k","e","n","i","n","g",".","w","a","v">>

BasicBreathingName == <<"B","a","s","i","c"," ","B","r","e","a","t","h","i","n","g">>

BasicBreathingDescription ==
    <<"A"," ","g","e","n","t","l","e"," ","b","r","e","a","t","h","i","n","g"," ","m","e","d","i","t","a","t","i","o","n"," ","t","o"," ","c","a","l","m"," ","y","o","u","r"," ","m","i","n","d",".">>

SharedBell == <<"s","h","a","r","e","d","/","b","e","l","l",".","w","a","v">>

SharedSilence == <<"s","h","a","r","e","d","/","s","i","l","e","n","c","e","-","1","s",".","w","a","v">>

\* the template with the last window of the 5-minute breathing phase
\* ending after the phase
build_manifest_long_window(session_id, clips) ==
    LET base == <<"s","e","s","s","i","o","n","s","/">> \o session_id
    IN  [sessions |-> <<
          [id |-> session_id,
           name |-> BasicBreathingName,
           description |-> BasicBreathingDescription,
           variants |-> <<
             [durationMinutes |-> 5,
              phases |-> <<
                  [type |-> "intro", durationSeconds |-> 30,
                   fixedCues |-> <<[atSeconds |-> 0, audioFile |-> base \o F_intro_welcome]>>],
                  [type |-> "breathing", durationSeconds |-> 240,
                   fixedCues |-> <<[atSeconds |-> 0, audioFile |-> base \o F_breathing_settle],
                       [atSeconds |-> 20, audioFile |-> base \o F_breathing_rhythm]>>,
                   interjectionWindows |-> <<
                       [earliestSeconds |-> 80, latestSeconds |-> 120,
                         audioPool |-> <<base \o F_breathing_reminder_1, base \o F_breathing_reminder_2, base \o F_breathing_reminder_3>>],
                       [earliestSeconds |-> 180, latestSeconds |-> 250,
                         audioPool |-> <<base \o F_breathing_deepen>>]>>],
                  [type |-> "closing", durationSeconds |-> 30,
                   fixedCues |-> <<[atSeconds |-> 0, audioFile |-> base \o F_closing_transition],
                       [atSeconds |-> 15, audioFile |-> base \o F_closing_gratitude]>>]>>],
             [durationMinutes |-> 10,
              phases |-> <<
                  [type |-> "intro", durationSeconds |-> 60,
                   fixedCues |-> <<[atSeconds |-> 0, audioFile |-> base \o F_intro_welcome],
                       [atSeconds |-> 30, audioFile |-> base \o F_intro_posture]>>],
                  [type |-> "breathing", durationSeconds |-> 480,
                   fixedCues |-> <<[atSeconds |-> 0, audioFile |-> base \o F_breathing_settle],
                       [atSeconds |-> 25, audioFile |-> base \o F_breathing_rhythm]>>,
                   interjectionWindows |-> <<
                       [earliestSeconds |-> 60, latestSeconds |-> 90,
                         audioPool |-> <<base \o F_breathing_reminder_1, base \o F_breathing_reminder_2, base \o F_breathing_reminder_3>>],
                       [earliestSeconds |-> 140, latestSeconds |-> 180,
                         audioPool |-> <<base \o F_breathing_reminder_1, base \o F_breathing_reminder_2, base \o F_breathing_reminder_3>>],
                       [earliestSeconds |-> 220, latestSeconds |-> 260,
                         audioPool |-> <<base \o F_breathing_midpoint>>],
                       [earliestSeconds |-> 320, latestSeconds |-> 380,
                         audioPool |-> <<base \o F_breathing_reminder_1, base \o F_breathing_reminder_2, base \o F_breathing_reminder_3>>],
                       [earliestSeconds |-> 420, latestSeconds |-> 460,
                         audioPool |-> <<base \o F_breathing_deepen>>]>>],
                  [type |-> "closing", durationSeconds |-> 60,
                   fixedCues |-> <<[atSeconds |-> 0, audioFile |-> base \o F_closing_transition],
                       [atSeconds |-> 20, audioFile |-> base \o F_closing_awakening],
                       [atSeconds |-> 40, audioFile |-> base \o F_closing_gratitude]>>]>>],
             [durationMinutes |-> 20,
              phases |-> <<
                  [type |-> "intro", durationSeconds |-> 60,
                   fixedCues |-> <<[atSeconds |-> 0, audioFile |-> base \o F_intro_welcome],
                       [atSeconds |-> 30, audioFile |-> base \o F_intro_posture]>>],
                  [type |-> "breathing", durationSeconds |-> 1080,
                   fixedCues |-> <<[atSeconds |-> 0, audioFile |-> base \o F_breathing_settle],
                       [atSeconds |-> 30, audioFile |-> base \o F_breathing_rhythm]>>,
                   interjectionWindows |-> <<
                       [earliestSeconds |-> 90, latestSeconds |-> 130,
                         audioPool |-> <<base \o F_breathing_reminder_1, base \o F_breathing_reminder_2, base \o F_breathing_reminder_3>>],
                       [earliestSeconds |-> 200, latestSeconds |-> 260,
                         audioPool |-> <<base \o F_breathing_reminder_1, base \o F_breathing_reminder_2, base \o F_breathing_reminder_3>>],
                       [earliestSeconds |-> 320, latestSeconds |-> 380,
                         audioPool |-> <<base \o F_breathing_midpoint>>],
                       [earliestSeconds |-> 460, latestSeconds |-> 540,
                         audioPool |-> <<base \o F_breathing_reminder_1, base \o F_breathing_reminder_2, base \o F_breathing_reminder_3>>],
                       [earliestSeconds |-> 620, latestSeconds |-> 700,
                         audioPool |-> <<base \o F_breathing_deepen>>],
                       [earliestSeconds |-> 780, latestSeconds |-> 860,
                         audioPool |-> <<base \o F_breathing_reminder_1, base \o F_breathing_reminder_2, base \o F_breathing_reminder_3>>],
                       [earliestSeconds |-> 920, latestSeconds |-> 1000,
                         audioPool |-> <<base \o F_breathing_reminder_1, base \o F_breathing_reminder_2, base \o F_breathing_reminder_3>>],
                       [earliestSeconds |-> 1020, latestSeconds |-> 1060,
                         audioPool |-> <<base \o F_breathing_deepen>>]>>],
                  [type |-> "closing", durationSeconds |-> 60,
                   fixedCues |-> <<[atSeconds |-> 0, audioFile |-> base \o F_closing_transition],
                       [atSeconds |-> 20, audioFile |-> base \o F_closing_awakening],
                       [atSeconds |-> 40, audioFile |-> base \o F_closing_gratitude]>>]>>]>>]>>,
         shared |-> [bell |-> SharedBell,
                     silence |-> SharedSilence]]


\* build_manifest(session_id, clips): the fixed template of three variants;
\* clips is not read
build_manifest(session_id, clips) ==
    LET base == <<"s","e","s","s","i","o","n","s","/">> \o session_id
    IN  [sessions |-> <<
          [id |-> session_id,
           name |-> BasicBreathingName,
           description |-> BasicBreathingDescription,
           variants |-> <<
             [durationMinutes |-> 5,
              phases |-> <<
                  [type |-> "intro", durationSeconds |-> 30,
                   fixedCues |-> <<[atSeconds |-> 0, audioFile |-> base \o F_intro_welcome]>>],
                  [type |-> "breathing", durationSeconds |-> 240,
                   fixedCues |-> <<[atSeconds |-> 0, audioFile |-> base \o F_breathing_settle],
                       [atSeconds |-> 20, audioFile |-> base \o F_breathing_rhythm]>>,
                   interjectionWindows |-> <<
                       [earliestSeconds |-> 80, latestSeconds |-> 120,
                         audioPool |-> <<base \o F_breathing_reminder_1, base \o F_breathing_reminder_2, base \o F_breathing_reminder_3>>],
                       [earliestSeconds |-> 180, latestSeconds |-> 220,
                         audioPool |-> <<base \o F_breathing_deepen>>]>>],
                  [type |-> "closing", durationSeconds |-> 30,
                   fixedCues |-> <<[atSeconds |-> 0, audioFile |-> base \o F_closing_transition],
                       [atSeconds |-> 15, audioFile |-> base \o F_closing_gratitude]>>]>>],
             [durationMinutes |-> 10,
              phases |-> <<
                  [type |-> "intro", durationSeconds |-> 60,
                   fixedCues |-> <<[atSeconds |-> 0, audioFile |-> base \o F_intro_welcome],
                       [atSeconds |-> 30, audioFile |-> base \o F_intro_posture]>>],
                  [type |-> "breathing", durationSeconds |-> 480,
                   fixedCues |-> <<[atSeconds |-> 0, audioFile |-> base \o F_breathing_settle],
                       [atSeconds |-> 25, audioFile |-> base \o F_breathing_rhythm]>>,
                   interjectionWindows |-> <<
                       [earliestSeconds |-> 60, latestSeconds |-> 90,
                         audioPool |-> <<base \o F_breathing_reminder_1, base \o F_breathing_reminder_2, base \o F_breathing_reminder_3>>],
                       [earliestSeconds |-> 140, latestSeconds |-> 180,
                         audioPool |-> <<base \o F_breathing_reminder_1, base \o F_breathing_reminder_2, base \o F_breathing_reminder_3>>],
                       [earliestSeconds |-> 220, latestSeconds |-> 260,
                         audioPool |-> <<base \o F_breathing_midpoint>>],
                       [earliestSeconds |-> 320, latestSeconds |-> 380,
                         audioPool |-> <<base \o F_breathing_reminder_1, base \o F_breathing_reminder_2, base \o F_breathing_reminder_3>>],
                       [earliestSeconds |-> 420, latestSeconds |-> 460,
                         audioPool |-> <<base \o F_breathing_deepen>>]>>],
                  [type |-> "closing", durationSeconds |-> 60,
                   fixedCues |-> <<[atSeconds |-> 0, audioFile |-> base \o F_closing_transition],
                       [atSeconds |-> 20, audioFile |-> base \o F_closing_awakening],
                       [atSeconds |-> 40, audioFile |-> base \o F_closing_gratitude]>>]>>],
             [durationMinutes |-> 20,
              phases |-> <<
                  [type |-> "intro", durationSeconds |-> 60,
                   fixedCues |-> <<[atSeconds |-> 0, audioFile |-> base \o F_intro_welcome],
                       [atSeconds |-> 30, audioFile |-> base \o F_intro_posture]>>],
                  [type |-> "breathing", durationSeconds |-> 1080,
                   fixedCues |-> <<[atSeconds |-> 0, audioFile |-> base \o F_breathing_settle],
                       [atSeconds |-> 30, audioFile |-> base \o F_breathing_rhythm]>>,
                   interjectionWindows |-> <<
                       [earliestSeconds |-> 90, latestSeconds |-> 130,
                         audioPool |-> <<base \o F_breathing_reminder_1, base \o F_breathing_reminder_2, base \o F_breathing_reminder_3>>],
                       [earliestSeconds |-> 200, latestSeconds |-> 260,
                         audioPool |-> <<base \o F_breathing_reminder_1, base \o F_breathing_reminder_2, base \o F_breathing_reminder_3>>],
                       [earliestSeconds |-> 320, latestSeconds |-> 380,
                         audioPool |-> <<base \o F_breathing_midpoint>>],
                       [earliestSeconds |-> 460, latestSeconds |-> 540,
                         audioPool |-> <<base \o F_breathing_reminder_1, base \o F_breathing_reminder_2, base \o F_breathing_reminder_3>>],
                       [earliestSeconds |-> 620, latestSeconds |-> 700,
                         audioPool |-> <<base \o F_breathing_deepen>>],
                       [earliestSeconds |-> 780, latestSeconds |-> 860,
                         audioPool |-> <<base \o F_breathing_reminder_1, base \o F_breathing_reminder_2, base \o F_breathing_reminder_3>>],
                       [earliestSeconds |-> 920, latestSeconds |-> 1000,
                         audioPool |-> <<base \o F_breathing_reminder_1, base \o F_breathing_reminder_2, base \o F_breathing_reminder_3>>],
                       [earliestSeconds |-> 1020, latestSeconds |-> 1060,
                         audioPool |-> <<base \o F_breathing_deepen>>]>>],
                  [type |-> "closing", durationSeconds |-> 60,
                   fixedCues |-> <<[atSeconds |-> 0, audioFile |-> base \o F_closing_transition],
                       [atSeconds |-> 20, audioFile |-> base \o F_closing_awakening],
                       [atSeconds |-> 40, audioFile |-> base \o F_closing_gratitude]>>]>>]>>]>>,
         shared |-> [bell |-> SharedBell,
                     silence |-> SharedSilence]]


\* ------------------------------------------------------------------------
\* The generation functions (both generators)
\* ------------------------------------------------------------------------
\* The output directory is a function from the paths that exist (relative
\* to OUTPUT_DIR) to their content <<kind, data>>.  What a call of a
\* generation function does is a record: the directory afterwards, whether
\* the pipeline handle is set, how many KPipeline were constructed, the
\* paths synthesis was invoked for, the line printed, the value returned
\* and whether an exception left the function.

\* what can happen inside generate_tts_clip once the imports succeeded:
\* KPipeline(...) raises, the pipeline raises, it yields no audio, mkdir or
\* sf.write raises, or the clip is written
TtsOutcomes == {"ok", "init_error", "synth_error", "no_audio", "write_error"}

\* what can happen inside generate_silence and generate_bell once the
\* imports succeeded: mkdir or sf.write raises, or the file is written
WriteOutcomes == {"ok", "write_error"}

Call(fs, pl, constructed, invoked, log, ret, raised) ==
    [fs |-> fs, pipeline |-> pl, inits |-> constructed, synth |-> invoked,
     log |-> log, ret |-> ret, raised |-> raised]

\* a generate_tts_clip without the exists() guard of lines 175-177
generate_tts_clip_no_skip(fs, pl, dep, text, path, o) ==
    IF ~dep
    THEN Call(fs, pl, 0, <<>>, <<"ERROR: Missing dependency", path>>, FALSE, FALSE)
    ELSE IF ~pl /\ o = "init_error"
    THEN Call(fs, FALSE, 0, <<>>, <<"ERROR generating", path>>, FALSE, FALSE)
    ELSE IF o \in {"synth_error", "write_error"}
    THEN Call(fs, TRUE, IF pl THEN 0 ELSE 1, <<path>>,
              <<"ERROR generating", path>>, FALSE, FALSE)
    ELSE IF o = "no_audio"
    THEN Call(fs, TRUE, IF pl THEN 0 ELSE 1, <<path>>,
              <<"ERROR: No audio generated", path>>, FALSE, FALSE)
    ELSE Call((path :> <<"tts", text>>) @@ fs, TRUE, IF pl THEN 0 ELSE 1,
              <<path>>, <<"GENERATED", path>>, TRUE, FALSE)

\* a generate_tts_clip that constructs a KPipeline for every synthesis
\* instead of keeping the first (no hasattr test at line 184)
generate_tts_clip_no_cache(fs, pl, dep, text, path, o) ==
    IF path \in DOMAIN fs
    THEN Call(fs, pl, 0, <<>>, <<"SKIP (exists)", path>>, FALSE, FALSE)
    ELSE IF ~dep
    THEN Call(fs, pl, 0, <<>>, <<"ERROR: Missing dependency", path>>, FALSE, FALSE)
    ELSE IF o = "init_error"
    THEN Call(fs, pl, 0, <<>>, <<"ERROR generating", path>>, FALSE, FALSE)
    ELSE IF o \in {"synth_error", "write_error"}
    THEN Call(fs, TRUE, 1, <<path>>,
              <<"ERROR generating", path>>, FALSE, FALSE)
    ELSE IF o = "no_audio"
    THEN Call(fs, TRUE, 1, <<path>>,
              <<"ERROR: No audio generated", path>>, FALSE, FALSE)
    ELSE Call((path :> <<"tts", text>>) @@ fs, TRUE, 1,
              <<path>>, <<"GENERATED", path>>, TRUE, FALSE)

\* generate_tts_clip(text, output_path) in the directory fs, with the
\* pipeline handle set or not (pl), the dependencies importable or not
\* (dep) and the outcome o of the calls it makes
generate_tts_clip(fs, pl, dep, text, path, o) ==
    IF path \in DOMAIN fs
    THEN Call(fs, pl, 0, <<>>, <<"SKIP (exists)", path>>, FALSE, FALSE)
    ELSE IF ~dep
    THEN Call(fs, pl, 0, <<>>, <<"ERROR: Missing dependency", path>>, FALSE, FALSE)
    ELSE IF ~pl /\ o = "init_error"
    THEN Call(fs, FALSE, 0, <<>>, <<"ERROR generating", path>>, FALSE, FALSE)
    ELSE IF o \in {"synth_error", "write_error"}
    THEN Call(fs, TRUE, IF pl THEN 0 ELSE 1, <<path>>,
              <<"ERROR generating", path>>, FALSE, FALSE)
    ELSE IF o = "no_audio"
    THEN Call(fs, TRUE, IF pl THEN 0 ELSE 1, <<path>>,
              <<"ERROR: No audio generated", path>>, FALSE, FALSE)
    ELSE Call((path :> <<"tts", text>>) @@ fs, TRUE, IF pl THEN 0 ELSE 1,
              <<path>>, <<"GENERATED", path>>, TRUE, FALSE)

\* the body shared by generate_silence and generate_bell: only ImportError
\* is caught, so an exception of mkdir or sf.write leaves the function
SynthesizeFile(fs, pl, dep, path, kind, o) ==
    IF path \in DOMAIN fs
    THEN Call(fs, pl, 0, <<>>, <<"SKIP (exists)", path>>, FALSE, FALSE)
    ELSE IF ~dep
    THEN Call(fs, pl, 0, <<>>, <<"ERROR: Missing dependency", path>>, FALSE, FALSE)
    ELSE IF o = "write_error"
    THEN Call(fs, pl, 0, <<path>>, <<>>, FALSE, TRUE)
    ELSE Call((path :> <<kind, <<>>>>) @@ fs, pl, 0, <<path>>,
              <<"GENERATED", path>>, TRUE, FALSE)

\* a generate_silence without the exists() guard of lines 222-224
generate_silence_overwrites(fs, pl, dep, path, o) ==
    IF ~dep
    THEN Call(fs, pl, 0, <<>>, <<"ERROR: Missing dependency", path>>, FALSE, FALSE)
    ELSE IF o = "write_error"
    THEN Call(fs, pl, 0, <<path>>, <<>>, FALSE, TRUE)
    ELSE Call((path :> <<"silence", <<>>>>) @@ fs, pl, 0, <<path>>,
              <<"GENERATED", path>>, TRUE, FALSE)

\* generate_silence(output_path, 1.0)
generate_silence(fs, pl, dep, path, o) ==
    SynthesizeFile(fs, pl, dep, path, "silence", o)

\* generate_bell(output_path)
generate_bell(fs, pl, dep, path, o) ==
    SynthesizeFile(fs, pl, dep, path, "bell", o)

\* copy_image(source_name, dest_path): shutil.copy2 replaces dest_path
copy_image(fs, dir, source_name, dest_path) ==
    IF source_name \notin dir THEN fs
    ELSE (dest_path :> <<"png", source_name>>) @@ fs

\* ------------------------------------------------------------------------
\* main of generate-tts.py: what it derives from the definition files
\* ------------------------------------------------------------------------
SwitchSidesWav == <<"s","h","a","r","e","d","/","s","w","i","t","c","h","-","s","i","d","e","s",".","w","a","v">>

HalfwayWav == <<"s","h","a","r","e","d","/","h","a","l","f","w","a","y",".","w","a","v">>

SessionCompleteWav == <<"s","h","a","r","e","d","/","s","e","s","s","i","o","n","-","c","o","m","p","l","e","t","e",".","w","a","v">>

Silence1sWav == <<"s","h","a","r","e","d","/","s","i","l","e","n","c","e","-","1","s",".","w","a","v">>

shared_clips ==
    << [text |-> <<"S","w","i","t","c","h"," ","s","i","d","e","s",".">>, path |-> SwitchSidesWav],
       [text |-> <<"H","a","l","f","w","a","y",".">>, path |-> HalfwayWav],
       [text |-> <<"S","t","r","e","t","c","h","i","n","g"," ","c","o","m","p","l","e","t","e","."," ","G","r","e","a","t"," ","j","o","b",".">>,
        path |-> SessionCompleteWav] >>

\* the text of the file stem.md of a directory of definition files
TextOf(dir, stem) == (CHOOSE f \in dir : f.stem = stem).text

\* stretch_files: the stems of the definition files, sorted
stretch_files(dir) == sorted_stems({f.stem : f \in dir})

\* a clean that also drops the key "image" when its value is None
clean_omits_null_image(st) ==
    [k \in {h \in (DOMAIN st) \ InternalKeys :
                h = "image" => st[h] # None} |-> st[k]]

\* clean: the dict without its keys that start with "_" (line 286)
clean(st) == [k \in (DOMAIN st) \ InternalKeys |-> st[k]]

\* the manifest main builds in phase 1 (lines 265-292): the regions in
\* insertion order and the shared block
stretch_manifest(dir, imgs) ==
    LET files == stretch_files(dir)
    IN  [regions |->
            [k \in 1..Len(files) |->
                LET st == parse_stretch_file(TextOf(dir, files[k]), files[k],
                                             imgs).stretches
                IN  [region    |-> files[k],
                     stretches |-> [j \in 1..Len(st) |-> clean(st[j])]]],
         shared |->
            [switchSides     |-> SwitchSidesWav,
             halfway         |-> HalfwayWav,
             sessionComplete |-> SessionCompleteWav,
             silence         |-> Silence1sWav]]

\* the stretches phase 3 visits (lines 316-320), file by file: each with
\* its region, the narration text, the clip path and the image to copy
RECURSIVE StretchUnitsFrom(_, _, _)
StretchUnitsFrom(dir, imgs, k) ==
    LET files == stretch_files(dir)
    IN  IF k > Len(files) THEN <<>>
        ELSE LET st == parse_stretch_file(TextOf(dir, files[k]), files[k],
                                          imgs).stretches
             IN  [j \in 1..Len(st) |->
                    [text  |-> st[j].name \o <<".", " ">> \o st[j].description,
                     path  |-> files[k] \o <<"/">> \o st[j]["_slug"] \o BeginWav,
                     image_source |-> st[j]["_image_source"],
                     image_dest   |-> files[k] \o <<"/">> \o st[j]["_slug"]
                                          \o DotPng]]
                 \o StretchUnitsFrom(dir, imgs, k + 1)

stretch_units(dir, imgs) == StretchUnitsFrom(dir, imgs, 1)

\* ------------------------------------------------------------------------
\* main of generate-tts-meditation.py: what it derives from the scripts
\* ------------------------------------------------------------------------
BellWav == <<"s","h","a","r","e","d","/","b","e","l","l",".","w","a","v">>

\* all_clips (lines 362-366): session ids in sorted file order, each with
\* the items of its clips
all_clips(dir) ==
    LET files == sorted_stems({f.stem : f \in dir})
    IN  [k \in 1..Len(files) |->
            [session_id |-> files[k],
             clips      |-> parse_meditation_file(TextOf(dir, files[k]))]]

\* the clips phase 3 visits (lines 378-383), session by session
RECURSIVE ClipUnitsFrom(_, _)
ClipUnitsFrom(sessions, k) ==
    IF k > Len(sessions) THEN <<>>
    ELSE [j \in 1..Len(sessions[k].clips) |->
             [text |-> sessions[k].clips[j].text,
              path |-> <<"s","e","s","s","i","o","n","s","/">> \o sessions[k].session_id \o <<"/">>
                          \o sessions[k].clips[j].id \o <<".","w","a","v">>]]
         \o ClipUnitsFrom(sessions, k + 1)

clip_units(dir) == ClipUnitsFrom(all_clips(dir), 1)

\* the manifest main writes (lines 393-395): the template for the first
\* session
meditation_manifest(dir) ==
    build_manifest(all_clips(dir)[1].session_id, all_clips(dir)[1].clips)



\* ------------------------------------------------------------------------
\* The directories a run starts from
\* ------------------------------------------------------------------------
B_TiltUpper ==
    [text  |-> <<"T","I","L","T",":"," ","H","o","l","d"," ","b","o","t","h">>,
     colon |-> TRUE,
     name  |-> <<"T","I","L","T">>,
     description |-> <<"H","o","l","d"," ","b","o","t","h">>]

B_Seated ==
    [text  |-> <<"S","e","a","t","e","d"," ","G","l","u","t","e"," ","S","t","r","e","t","c","h",":"," ","P","u","l","l"," ","o","n","e"," ","k","n","e","e"," ","i","n">>,
     colon |-> TRUE,
     name  |-> SeatedGluteStretch,
     description |-> <<"P","u","l","l"," ","o","n","e"," ","k","n","e","e"," ","i","n">>]

\* the stretch definition directories: empty; neck.md with a malformed
\* block; neck.md with two names of one slug, and glutes.md
StretchDirs ==
    { {},
      {[stem |-> R_neck,
        text |-> FileText(<<"N","e","c","k">>, <<B_Tilt, B_Malformed, B_ChildsPose>>)]},
      {[stem |-> R_neck,
        text |-> FileText(<<"N","e","c","k">>, <<B_Tilt, B_TiltUpper>>)],
       [stem |-> R_glutes,
        text |-> FileText(<<"G","l","u","t","e","s">>, <<B_Seated>>)]} }

RunImages ==
    { {},
      {<<"n","e","c","k","-","c","h","i","l","d","-","s","-","p","o","s","e",".","p","n","g">>, <<"g","l","u","t","e","-","s","e","a","t","e","d","-","g","l","u","t","e","-","s","t","r","e","t","c","h",".","p","n","g">>} }

BasicBreathing == <<"b","a","s","i","c","-","b","r","e","a","t","h","i","n","g">>

BodyScan == <<"b","o","d","y","-","s","c","a","n">>

\* the meditation script directories: empty; one script with a section, a
\* repeated clip id, a line without a colon and a comment; two scripts
MeditationDirs ==
    { {},
      {[stem |-> BasicBreathing,
        text |-> <<"B","a","s","i","c","\n","#","#"," ","I","n","t","r","o","\n","i","n","t","r","o","-","w","e","l","c","o","m","e",":"," ","H","i",".","\n","-","-","-","-","\n","#"," ","n","o","t","e",":"," ","x","\n","i","n","t","r","o","-","w","e","l","c","o","m","e",":"," ","H","i",":"," ","a","g","a","i","n",".","\n","n","o"," ","c","o","l","o","n","\n","b","r","e","a","t","h","i","n","g","-","s","e","t","t","l","e",":"," ","S","e","t","t","l","e",".">>]},
      {[stem |-> BodyScan,
        text |-> <<"S","c","a","n","\n","s","c","a","n","-","s","t","a","r","t",":"," ","B","e","g","i","n",".">>],
       [stem |-> BasicBreathing,
        text |-> <<"B","a","s","i","c","\n","i","n","t","r","o","-","w","e","l","c","o","m","e",":"," ","H","i",".">>]} }

\* the output paths of a list of generation units
PathsOf(us) == {us[k].path : k \in 1..Len(us)}

\* the audio paths main of the stretch generator generates
StretchTargets(dir, imgs) ==
    PathsOf(shared_clips) \cup {Silence1sWav}
        \cup PathsOf(stretch_units(dir, imgs))

\* the audio paths main of the meditation generator generates
MeditationTargets(dir) ==
    IF dir = {} THEN {}
    ELSE {BellWav, Silence1sWav} \cup PathsOf(clip_units(dir))

Targets ==
    IF script = "stretch" THEN StretchTargets(defs, images)
    ELSE MeditationTargets(defs)

\* a file left by an earlier build
OldFile == <<"old", <<>>>>

\* OUTPUT_DIR before the first run: empty, every target present, or the
\* shared files present
InitialDirs(targets) ==
    {[p \in S |-> OldFile] :
        S \in {{}, targets, targets \cap {Silence1sWav, BellWav, HalfwayWav}}}

InitRun ==
    /\ MedIdle
    /\ SlugIdle
    /\ BilIdle
    /\ ParseIdle
    /\ region = <<>>
    /\ imgName = <<>>
    /\ found = NoImage
    /\ imgPc = "idle"
    /\ script \in {"stretch", "meditation"}
    /\ defs \in IF script = "stretch" THEN StretchDirs ELSE MeditationDirs
    /\ images \in IF script = "stretch" THEN RunImages ELSE {{}}
    /\ deps \in BOOLEAN
    /\ outFs \in InitialDirs(Targets)
    /\ startFs = outFs
    /\ run = "first"
    /\ pc = "start"
    /\ idx = 1
    /\ units = <<>>
    /\ manifest = None
    /\ manifestFile = None
    /\ prevManifestFile = None
    /\ pipeline = FALSE
    /\ inits = 0
    /\ synth = <<>>
    /\ lastLog = <<>>
    /\ abortedIn = ""

\* the variables no step of a run changes
runFrame ==
    <<name, slug, reslug, slugPc, description, bilateral, bilPc,
      region, imgName, images, found, imgPc,
      blocksIn, content, parsed, parsePc, script, defs, deps,
      medStem, medLines, medText, medClips, medManifest, medPc>>

\* the effect of one call of a generation function on the run
ApplyCall(r) ==
    /\ outFs' = r.fs
    /\ pipeline' = r.pipeline
    /\ inits' = inits + r.inits
    /\ synth' = synth \o r.synth
    /\ lastLog' = IF r.log = <<>> THEN <<>> ELSE <<r.log>>

\* ------------------------------------------------------------------------
\* main of generate-tts.py, step by step
\* ------------------------------------------------------------------------
\* [1/4] parse every definition file and build the manifest dict
StretchParse ==
    /\ script = "stretch"
    /\ pc = "start"
    /\ IF \E f \in defs : parse_stretch_file(f.text, f.stem, images).raised
       THEN /\ pc' = "aborted"
            /\ abortedIn' = "parse_stretch_file"
            /\ manifest' = None
       ELSE /\ pc' = "shared"
            /\ abortedIn' = ""
            /\ manifest' = Some(stretch_manifest(defs, images))
    /\ idx' = 1
    /\ lastLog' = <<>>
    /\ UNCHANGED <<outFs, startFs, run, units, manifestFile,
                   prevManifestFile, pipeline, inits, synth>>
    /\ UNCHANGED runFrame

\* [2/4] one generate_tts_clip of the loop over shared_clips
StretchSharedClip ==
    /\ script = "stretch"
    /\ pc = "shared"
    /\ \E o \in TtsOutcomes :
          ApplyCall(generate_tts_clip(outFs, pipeline, deps,
                                      shared_clips[idx].text,
                                      shared_clips[idx].path, o))
    /\ IF idx < Len(shared_clips)
       THEN pc' = "shared" /\ idx' = idx + 1
       ELSE pc' = "silence" /\ idx' = 1
    /\ UNCHANGED <<startFs, run, units, manifest, manifestFile,
                   prevManifestFile, abortedIn>>
    /\ UNCHANGED runFrame

\* [2/4] generate_silence; an exception it lets through ends main.
\* Phase 3 then parses the definition files again, which gives the
\* stretches it visits.
StretchSilence ==
    /\ script = "stretch"
    /\ pc = "silence"
    /\ \E o \in WriteOutcomes :
          LET r == generate_silence(outFs, pipeline, deps, Silence1sWav, o)
          IN  /\ ApplyCall(r)
              /\ IF r.raised
                 THEN /\ pc' = "aborted"
                      /\ abortedIn' = "generate_silence"
                      /\ units' = units
                 ELSE /\ units' = stretch_units(defs, images)
                      /\ pc' = IF units' = <<>> THEN "write" ELSE "units"
                      /\ abortedIn' = ""
    /\ idx' = 1
    /\ UNCHANGED <<startFs, run, manifest, manifestFile, prevManifestFile>>
    /\ UNCHANGED runFrame

\* [3/4] one stretch: its narration clip, then its image
StretchUnit ==
    /\ script = "stretch"
    /\ pc = "units"
    /\ \E o \in TtsOutcomes :
          LET u == units[idx]
              r == generate_tts_clip(outFs, pipeline, deps, u.text, u.path, o)
              copied == IF u.image_source # None
                        THEN copy_image(r.fs, images, u.image_source[1],
                                        u.image_dest)
                        ELSE r.fs
          IN  ApplyCall([r EXCEPT !.fs = copied])
    /\ IF idx < Len(units)
       THEN pc' = "units" /\ idx' = idx + 1
       ELSE pc' = "write" /\ idx' = 1
    /\ UNCHANGED <<startFs, run, units, manifest, manifestFile,
                   prevManifestFile, abortedIn>>
    /\ UNCHANGED runFrame

\* a last step that leaves the manifest unwritten when a clip of the run
\* is missing
StretchWriteManifest_rollback ==
    /\ script = "stretch"
    /\ pc = "write"
    /\ manifestFile' =
           IF PathsOf(shared_clips) \cup PathsOf(units) \subseteq DOMAIN outFs
           THEN manifest ELSE manifestFile
    /\ pc' = "done"
    /\ lastLog' = <<>>
    /\ UNCHANGED <<outFs, startFs, run, idx, units, manifest,
                   prevManifestFile, pipeline, inits, synth, abortedIn>>
    /\ UNCHANGED runFrame

\* [4/4] json.dump(manifest) to stretches.json
StretchWriteManifest ==
    /\ script = "stretch"
    /\ pc = "write"
    /\ manifestFile' = manifest
    /\ pc' = "done"
    /\ lastLog' = <<>>
    /\ UNCHANGED <<outFs, startFs, run, idx, units, manifest,
                   prevManifestFile, pipeline, inits, synth, abortedIn>>
    /\ UNCHANGED runFrame

\* ------------------------------------------------------------------------
\* main of generate-tts-meditation.py, step by step
\* ------------------------------------------------------------------------
\* [1/4] parse the scripts; without a script main prints an error and
\* returns
MeditationParse ==
    /\ script = "meditation"
    /\ pc = "start"
    /\ IF defs = {}
       THEN /\ pc' = "done"
            /\ lastLog' = <<<<"ERROR: No meditation script files found", <<>>>>>>
            /\ units' = <<>>
       ELSE /\ pc' = "bell"
            /\ lastLog' = <<>>
            /\ units' = clip_units(defs)
    /\ idx' = 1
    /\ UNCHANGED <<outFs, startFs, run, manifest, manifestFile,
                   prevManifestFile, pipeline, inits, synth, abortedIn>>
    /\ UNCHANGED runFrame

\* [2/4] generate_bell; an exception it lets through ends main
MeditationBell ==
    /\ script = "meditation"
    /\ pc = "bell"
    /\ \E o \in WriteOutcomes :
          LET r == generate_bell(outFs, pipeline, deps, BellWav, o)
          IN  /\ ApplyCall(r)
              /\ IF r.raised
                 THEN pc' = "aborted" /\ abortedIn' = "generate_bell"
                 ELSE pc' = "silence" /\ abortedIn' = ""
    /\ idx' = 1
    /\ UNCHANGED <<startFs, run, units, manifest, manifestFile,
                   prevManifestFile>>
    /\ UNCHANGED runFrame

\* [2/4] generate_silence; an exception it lets through ends main
MeditationSilence ==
    /\ script = "meditation"
    /\ pc = "silence"
    /\ \E o \in WriteOutcomes :
          LET r == generate_silence(outFs, pipeline, deps, Silence1sWav, o)
          IN  /\ ApplyCall(r)
              /\ IF r.raised
                 THEN pc' = "aborted" /\ abortedIn' = "generate_silence"
                 ELSE /\ pc' = IF units = <<>> THEN "write" ELSE "clips"
                      /\ abortedIn' = ""
    /\ idx' = 1
    /\ UNCHANGED <<startFs, run, units, manifest, manifestFile,
                   prevManifestFile>>
    /\ UNCHANGED runFrame

\* [3/4] one clip of one session
MeditationClip ==
    /\ script = "meditation"
    /\ pc = "clips"
    /\ \E o \in TtsOutcomes :
          ApplyCall(generate_tts_clip(outFs, pipeline, deps,
                                      units[idx].text, units[idx].path, o))
    /\ IF idx < Len(units)
       THEN pc' = "clips" /\ idx' = idx + 1
       ELSE pc' = "write" /\ idx' = 1
    /\ UNCHANGED <<startFs, run, units, manifest, manifestFile,
                   prevManifestFile, abortedIn>>
    /\ UNCHANGED runFrame

\* [4/4] build_manifest for the first session and json.dump it to
\* meditation.json
MeditationWriteManifest ==
    /\ script = "meditation"
    /\ pc = "write"
    /\ manifest' = Some(meditation_manifest(defs))
    /\ manifestFile' = Some(meditation_manifest(defs))
    /\ pc' = "done"
    /\ lastLog' = <<>>
    /\ UNCHANGED <<outFs, startFs, run, idx, units, prevManifestFile,
                   pipeline, inits, synth, abortedIn>>
    /\ UNCHANGED runFrame

\* the developer runs the same script again, in a new process, on the
\* same definitions and the output directory as the first run left it
Rerun ==
    /\ pc \in {"done", "aborted"}
    /\ run = "first"
    /\ run' = "rerun"
    /\ pc' = "start"
    /\ idx' = 1
    /\ startFs' = outFs
    /\ prevManifestFile' = manifestFile
    /\ manifest' = None
    /\ units' = <<>>
    /\ pipeline' = FALSE
    /\ inits' = 0
    /\ synth' = <<>>
    /\ lastLog' = <<>>
    /\ abortedIn' = ""
    /\ UNCHANGED <<outFs, manifestFile>>
    /\ UNCHANGED runFrame

Next ==
    \/ StretchParse
    \/ StretchSharedClip
    \/ StretchSilence
    \/ StretchUnit
    \/ StretchWriteManifest
    \/ MeditationParse
    \/ MeditationBell
    \/ MeditationSilence
    \/ MeditationClip
    \/ MeditationWriteManifest
    \/ Rerun

Spec == InitRun /\ [][Next]_vars


\* ------------------------------------------------------------------------
\* Properties of a run and its rerun
\* ------------------------------------------------------------------------
DotWav == <<".","w","a","v">>

\* the path names an audio file
IsWav(p) == Len(p) >= Len(DotWav) /\ From(p, Len(p) - Len(DotWav) + 1) = DotWav

\* main is about to call a generation function
AtGeneration == pc \in {"shared", "silence", "bell", "units", "clips"}

\* the output path of the generation call main is about to make
CurrentPath ==
    CASE pc = "shared"  -> shared_clips[idx].path
      [] pc = "silence" -> Silence1sWav
      [] pc = "bell"    -> BellWav
      [] OTHER          -> units[idx].path

\* C1: an audio path that exists when its generation function is called
\* is skipped (the function prints SKIP and returns False) without a
\* synthesis call and without a write, and a file that exists keeps its
\* content through every later step of the run.
C1_ExistingAudioNeverOverwritten ==
    [][ /\ (AtGeneration /\ CurrentPath \in DOMAIN outFs) =>
              /\ lastLog' = <<<<"SKIP (exists)", CurrentPath>>>>
              /\ synth' = synth
              /\ pipeline' = pipeline
        /\ \A p \in DOMAIN outFs :
              IsWav(p) => (p \in DOMAIN outFs' /\ outFs'[p] = outFs[p])
      ]_vars

\* generate_silence has just skipped a silence file an earlier build left,
\* in a run that synthesized something before
C1_Witness ==
    /\ lastLog = <<<<"SKIP (exists)", Silence1sWav>>>>
    /\ Silence1sWav \in DOMAIN outFs
    /\ outFs[Silence1sWav] = OldFile
    /\ synth # <<>>

\* C2: a rerun on unchanged inputs that starts with every output file
\* present makes no synthesis call, constructs no pipeline and writes a
\* manifest identical to the one the previous run wrote.
C2_RerunIdempotent ==
    ( /\ run = "rerun"
      /\ pc = "done"
      /\ prevManifestFile # None
      /\ Targets \subseteq DOMAIN startFs )
    => /\ synth = <<>>
       /\ inits = 0
       /\ ~pipeline
       /\ manifestFile = prevManifestFile

\* the stretch generator has been rerun to its end on an output
\* directory that held every output, clips of the first run among them
C2_Witness ==
    /\ script = "stretch"
    /\ run = "rerun"
    /\ pc = "done"
    /\ units # <<>>
    /\ prevManifestFile # None
    /\ Targets \subseteq DOMAIN startFs
    /\ \E p \in DOMAIN startFs : startFs[p][1] = "tts"
    /\ manifestFile = prevManifestFile

\* C3: no failure while generating an audio artifact ends the run: main
\* is never ended by an exception of a generation function.
C3_GenerationFailureNeverAborts ==
    ~( /\ pc = "aborted"
       /\ abortedIn \in {"generate_tts_clip", "generate_silence",
                         "generate_bell"} )

\* the records of the written stretch manifest, each with its region
ManifestRecords ==
    IF script # "stretch" \/ manifestFile = None THEN {}
    ELSE LET regions == manifestFile[1].regions
         IN  UNION {{[region |-> regions[k].region,
                      record |-> regions[k].stretches[j]] :
                        j \in 1..Len(regions[k].stretches)} :
                    k \in 1..Len(regions)}

\* a source image matches the stretch: one of the candidate names of its
\* region and name is in the image directory
ImageMatches(reg, n) ==
    \E r \in CandidateRanks(reg, n) : RankedCandidate(reg, n, r) \in images

\* C10 as the specification words it: the record of a stretch without a
\* matching image has no key "image"; the key is present only with a
\* match, and then its value is <region>/<slug>.png.
C10_ImageKeyOmitted ==
    \A m \in ManifestRecords :
        /\ ~ImageMatches(m.region, m.record.name) =>
               "image" \notin DOMAIN m.record
        /\ "image" \in DOMAIN m.record =>
               /\ ImageMatches(m.region, m.record.name)
               /\ m.record.image =
                      Some(m.region \o <<"/">> \o slugify(m.record.name)
                               \o DotPng)

\* C10, amended: every record of the written stretch manifest has the key
\* "image"; its value is null when no source image matches, which is no
\* error (the run goes on to write the manifest), and <region>/<slug>.png
\* when one does.
C10_ImageNullWithoutMatch ==
    /\ \A m \in ManifestRecords :
          /\ "image" \in DOMAIN m.record
          /\ ~ImageMatches(m.region, m.record.name) => m.record.image = None
          /\ ImageMatches(m.region, m.record.name) =>
                m.record.image =
                    Some(m.region \o <<"/">> \o slugify(m.record.name)
                             \o DotPng)
    /\ abortedIn \notin {"find_image", "parse_stretch_file"}

\* a manifest has been written with a record whose image is null and a
\* record whose image is a path
C10_Witness ==
    /\ \E m \in ManifestRecords : m.record.image = None
    /\ \E m \in ManifestRecords : m.record.image # None


\* ------------------------------------------------------------------------
\* parse_meditation_file and build_manifest on generated script files
\* ------------------------------------------------------------------------
MaxMedLines == 3

\* The lines a script file is written from. kind says what the line is to
\* a reader of the format: a clip line "id: text" with both parts
\* non-empty (id and val are the parts without their outer whitespace), a
\* "## " section header, or anything else.
L_Title ==
    [text |-> <<"B","a","s","i","c"," ","B","r","e","a","t","h","i","n","g">>,
     kind |-> "other",
     id   |-> <<>>,
     val  |-> <<>>]

L_IntroHi ==
    [text |-> <<"i","n","t","r","o",":"," ","H","i",".">>,
     kind |-> "clip",
     id   |-> <<"i","n","t","r","o">>,
     val  |-> <<"H","i",".">>]

L_IntroBye ==
    [text |-> <<" "," ","i","n","t","r","o"," ",":"," "," ","B","y","e",":"," ","n","o","w","."," ">>,
     kind |-> "clip",
     id   |-> <<"i","n","t","r","o">>,
     val  |-> <<"B","y","e",":"," ","n","o","w",".">>]

L_CloseEnd ==
    [text |-> <<"c","l","o","s","e",":"," ","E","n","d">>,
     kind |-> "clip",
     id   |-> <<"c","l","o","s","e">>,
     val  |-> <<"E","n","d">>]

L_SectionIntro ==
    [text |-> <<"#","#"," ","I","n","t","r","o">>,
     kind |-> "section",
     id   |-> <<>>,
     val  |-> <<>>]

L_SectionColon ==
    [text |-> <<"#","#"," ","C","l","o","s","i","n","g",":"," ","l","a","s","t">>,
     kind |-> "section",
     id   |-> <<>>,
     val  |-> <<>>]

L_Comment ==
    [text |-> <<"#"," ","i","n","t","r","o",":"," ","n","o","t","e">>,
     kind |-> "other",
     id   |-> <<>>,
     val  |-> <<>>]

L_NoId ==
    [text |-> <<":"," ","t","e","x","t">>,
     kind |-> "other",
     id   |-> <<>>,
     val  |-> <<>>]

L_NoText ==
    [text |-> <<"i","n","t","r","o",":"," "," ">>,
     kind |-> "other",
     id   |-> <<>>,
     val  |-> <<>>]

L_Rule ==
    [text |-> <<"-","-","-","-">>,
     kind |-> "other",
     id   |-> <<>>,
     val  |-> <<>>]

L_Blank ==
    [text |-> <<>>,
     kind |-> "other",
     id   |-> <<>>,
     val  |-> <<>>]

HeaderLines == {L_Title, L_IntroHi, L_Blank}

BodyLines ==
    {L_IntroHi, L_IntroBye, L_CloseEnd, L_SectionIntro, L_SectionColon,
     L_Comment, L_NoId, L_NoText, L_Rule, L_Blank}

MedStems == {BasicBreathing, <<"a">>}

\* the text of a file of the given lines
ScriptText(ls) == join([k \in 1..Len(ls) |-> ls[k].text], <<"\n">>)

InitMeditation ==
    /\ SlugIdle
    /\ BilIdle
    /\ ImgIdle
    /\ ParseIdle
    /\ RunIdle
    /\ medStem \in MedStems
    /\ medLines \in {<<h>> \o b : h \in HeaderLines,
                                  b \in SeqsUpTo(BodyLines, MaxMedLines)}
    /\ medText = ScriptText(medLines)
    /\ medClips = <<>>
    /\ medManifest = None
    /\ medPc = "input"

\* session_id, clips = parse_meditation_file(filepath)
CallParseMeditationFile ==
    /\ medPc = "input"
    /\ medClips' = parse_meditation_file(medText)
    /\ medPc' = "parsed"
    /\ UNCHANGED <<medStem, medLines, medText, medManifest>>
    /\ UNCHANGED <<slugVars, bilVars, imgVars, parseVars, runVars>>

\* manifest = build_manifest(session_id, clips)
CallBuildManifest ==
    /\ medPc = "parsed"
    /\ medManifest' = Some(build_manifest(medStem, medClips))
    /\ medPc' = "built"
    /\ UNCHANGED <<medStem, medLines, medText, medClips>>
    /\ UNCHANGED <<slugVars, bilVars, imgVars, parseVars, runVars>>

NextMeditation ==
    \/ CallParseMeditationFile
    \/ CallBuildManifest

SpecMeditation == InitMeditation /\ [][NextMeditation]_vars


\* the phases of every variant of every session of a meditation manifest
PhasesOf(m) ==
    UNION {UNION {{m.sessions[i].variants[j].phases[k] :
                      k \in 1..Len(m.sessions[i].variants[j].phases)} :
                  j \in 1..Len(m.sessions[i].variants)} :
           i \in 1..Len(m.sessions)}

\* the interjection windows of a phase; the key is optional
WindowsOf(ph) ==
    IF "interjectionWindows" \in DOMAIN ph
    THEN {ph.interjectionWindows[k] : k \in 1..Len(ph.interjectionWindows)}
    ELSE {}

\* C11: every phase of every variant of the manifest build_manifest
\* returns lasts more than 0 seconds, and every interjection window of a
\* phase starts before it ends and ends within the phase.
C11_PhasesAndWindowsWellFormed ==
    medPc = "built" =>
        \A ph \in PhasesOf(medManifest[1]) :
            /\ ph.durationSeconds > 0
            /\ \A w \in WindowsOf(ph) :
                  /\ w.earliestSeconds < w.latestSeconds
                  /\ w.latestSeconds <= ph.durationSeconds

\* build_manifest has returned a manifest for a parsed, non-empty clip
\* set, with phases that have windows and phases that have none
C11_Witness ==
    /\ medPc = "built"
    /\ medClips # <<>>
    /\ medManifest[1].sessions[1].id = medStem
    /\ \E ph \in PhasesOf(medManifest[1]) : WindowsOf(ph) # {}
    /\ \E ph \in PhasesOf(medManifest[1]) : WindowsOf(ph) = {}

\* the lines from the first line with text on: content.strip() removes
\* the blank lines a file starts with
RECURSIVE DropBlank(_)
DropBlank(ls) ==
    IF ls = <<>> THEN <<>>
    ELSE IF strip(ls[1].text, Whitespace) = <<>> THEN DropBlank(Tail(ls))
    ELSE ls

\* the clip lines of a file, in order: the clip lines after its header line
ClipLinesOf(ls) ==
    LET t == DropBlank(ls)
    IN  IF t = <<>> THEN <<>>
        ELSE SelectSeq(Tail(t), LAMBDA l : l.kind = "clip")

\* the file without the section lines after its header line
WithoutSections(ls) ==
    LET t == DropBlank(ls)
    IN  IF t = <<>> THEN <<>>
        ELSE <<t[1]>> \o SelectSeq(Tail(t), LAMBDA l : l.kind # "section")

\* a clip list as a mapping
AsMapping(items) == {<<items[i].id, items[i].text>> : i \in 1..Len(items)}

\* C13: the mapping parse_meditation_file returns has one entry per clip
\* id of the file's clip lines, no empty key and no empty value; an id on
\* several clip lines maps to the text of the last of them; the section
\* lines have no effect: the file without them gives the same mapping.
C13_FlatMappingLastWriteWins ==
    medPc \in {"parsed", "built"} =>
        LET cl == ClipLinesOf(medLines)
        IN  /\ \A i \in 1..Len(medClips) :
                  medClips[i].id # <<>> /\ medClips[i].text # <<>>
            /\ \A i, j \in 1..Len(medClips) :
                  medClips[i].id = medClips[j].id => i = j
            /\ {medClips[i].id : i \in 1..Len(medClips)}
                  = {cl[k].id : k \in 1..Len(cl)}
            /\ \A i \in 1..Len(medClips) :
                  \E k \in 1..Len(cl) :
                      /\ cl[k].id = medClips[i].id
                      /\ cl[k].val = medClips[i].text
                      /\ \A h \in (k + 1)..Len(cl) : cl[h].id # cl[k].id
            /\ AsMapping(parse_meditation_file(
                             ScriptText(WithoutSections(medLines))))
                  = AsMapping(medClips)

\* a file with the clip id "intro" on two clip lines, a section line
\* between them, has been parsed: the text of the second line is kept
C13_Witness ==
    /\ medPc = "parsed"
    /\ medLines = <<L_Title, L_IntroHi, L_SectionIntro, L_IntroBye>>
    /\ medClips = <<[id |-> L_IntroBye.id, text |-> L_IntroBye.val]>>


\* main is about to call generate_tts_clip
AtClip == pc \in {"shared", "units", "clips"}

\* the manifest of the definitions, whatever becomes of the clips
FullManifest ==
    IF script = "stretch" THEN stretch_manifest(defs, images)
    ELSE meditation_manifest(defs)

\* the clip paths of the run that are not in OUTPUT_DIR
MissingClips ==
    {p \in (IF script = "stretch" THEN PathsOf(shared_clips) ELSE {})
              \cup PathsOf(units) : p \notin DOMAIN outFs}

\* C12: no outcome of a clip's generation ends the run or touches the
\* manifest: the step after a generate_tts_clip is the next generation
\* step or the manifest-writing step, the manifest-writing step writes
\* the manifest of the definitions, and a run that is done has written
\* that manifest whichever clips are missing.
C12_NoManifestRollback ==
    /\ [][ /\ AtClip =>
                /\ pc' \in {"shared", "silence", "units", "clips", "write"}
                /\ manifest' = manifest
                /\ manifestFile' = manifestFile
           /\ pc = "write" =>
                /\ pc' = "done"
                /\ manifestFile' = Some(FullManifest)
         ]_vars
    /\ []( (pc = "done" /\ (script = "stretch" \/ defs # {})) =>
               manifestFile = Some(FullManifest) )

\* a first run of the stretch generator is done and has written its
\* manifest; one stretch's clip was generated, another's is missing and
\* the manifest names both
C12_Witness ==
    /\ script = "stretch"
    /\ run = "first"
    /\ pc = "done"
    /\ manifestFile = Some(FullManifest)
    /\ \E m \in ManifestRecords :
          /\ m.record.audioFiles.begin \in MissingClips
    /\ \E m \in ManifestRecords :
          /\ m.record.audioFiles.begin \in DOMAIN outFs
          /\ outFs[m.record.audioFiles.begin][1] = "tts"


\* the paths the pipeline was called for in this run: the synthesis calls
\* that are not the silence's or the bell's
TtsSynth == SelectSeq(synth, LAMBDA p : p \notin {Silence1sWav, BellWav})

\* C14: within a run the pipeline handle is set at most once and lazily.
\* No step whose clip exists constructs it; a step that invokes synthesis
\* constructs it exactly when it is not set yet and leaves it set; it is
\* constructed in no other step; once set it stays set until the run
\* ends, so every later synthesis uses the handle of the first.
C14_PipelineLazyAndMemoized ==
    /\ []( /\ inits <= 1
           /\ pipeline <=> inits = 1
           /\ TtsSynth # <<>> => pipeline )
    /\ [][ /\ (AtGeneration /\ CurrentPath \in DOMAIN outFs) =>
                (pipeline' = pipeline /\ inits' = inits)
           /\ Len(TtsSynth') > Len(TtsSynth) =>
                /\ AtClip
                /\ pipeline'
                /\ inits' = IF pipeline THEN inits ELSE inits + 1
           /\ inits' > inits => Len(TtsSynth') > Len(TtsSynth)
           /\ (pipeline /\ run' = run) => pipeline'
         ]_vars

\* in one run two clips have been synthesized with one construction, after
\* a clip that exists was skipped
C14_Witness ==
    /\ script = "stretch"
    /\ inits = 1
    /\ pipeline
    /\ Len(TtsSynth) >= 2
    /\ synth[1] = SwitchSidesWav
    /\ HalfwayWav \in DOMAIN outFs
    /\ outFs[HalfwayWav] = OldFile
    /\ \A k \in 1..Len(synth) : synth[k] # HalfwayWav


\* C15: every id parse_stretch_file gives starts with the region, and two
\* stretches of the file whose slugs differ have different ids.
C15_IdsPrefixedAndInjective ==
    parsePc = "called" =>
        LET st == parsed.stretches
        IN  /\ \A k \in 1..Len(st) : startswith(st[k].id, region)
            /\ \A j, k \in 1..Len(st) :
                  st[j]["_slug"] # st[k]["_slug"] => st[j].id # st[k].id


\* the records of a stretch manifest in the order main appended them
RECURSIVE FlatRecordsFrom(_, _)
FlatRecordsFrom(regions, k) ==
    IF k > Len(regions) THEN <<>>
    ELSE regions[k].stretches \o FlatRecordsFrom(regions, k + 1)

FlatRecords == FlatRecordsFrom(manifest[1].regions, 1)

\* the paths with the given suffix that a step creates or rewrites
Written(suffix) ==
    {p \in DOMAIN outFs' :
        /\ Len(p) >= Len(suffix)
        /\ From(p, Len(p) - Len(suffix) + 1) = suffix
        /\ (p \notin DOMAIN outFs \/ outFs'[p] # outFs[p])}

\* C16: phase 3 visits the stretches of the manifest one by one; for the
\* record of the stretch it visits, generate_tts_clip is called with the
\* path audioFiles.begin names and writes no other audio file, and the
\* matched source image is copied to the path a non-null image names and
\* to no other; a record without image has nothing copied.
C16_ManifestPathsAreGenerationPaths ==
    /\ []( (script = "stretch" /\ pc \in {"units", "write"}) =>
               Len(FlatRecords) = Len(units) )
    /\ [][ (script = "stretch" /\ pc = "units") =>
              LET rec == FlatRecords[idx]
              IN  /\ lastLog'[1][2] = rec.audioFiles.begin
                  /\ Written(DotWav) \subseteq {rec.audioFiles.begin}
                  /\ rec.image # None =>
                        /\ rec.image[1] \in DOMAIN outFs'
                        /\ outFs'[rec.image[1]][1] = "png"
                        /\ outFs'[rec.image[1]][2] \in images
                  /\ Written(DotPng) \subseteq
                        (IF rec.image = None THEN {} ELSE {rec.image[1]})
         ]_vars
    /\ [][ (script = "stretch" /\ pc = "write") =>
               manifestFile' = manifest ]_vars

\* a first run of the stretch generator has written a manifest with a
\* record whose clip it generated and whose image it copied
C16_Witness ==
    /\ script = "stretch"
    /\ run = "first"
    /\ pc = "done"
    /\ \E m \in ManifestRecords :
          /\ m.record.image # None
          /\ m.record.image[1] \in DOMAIN outFs
          /\ outFs[m.record.image[1]][1] = "png"
          /\ m.record.audioFiles.begin \in DOMAIN outFs
          /\ outFs[m.record.audioFiles.begin][1] = "tts"
          /\ \E k \in 1..Len(synth) : synth[k] = m.record.audioFiles.begin

====
